---------------------------- MODULE Spec2Model ----------------------------
(***************************************************************************)
(* Hybrid retrieval and context assembly of the MindTheGap backend:        *)
(* src/src/backend/graph_rag.py (extract_entities, search_graph,           *)
(* create_context_from_nodes, get_graph_rag_context, add_node_to_graph),   *)
(* src/src/backend/vector_embeddings.py (VectorStore),                     *)
(* src/src/backend/web_search.py (search_and_extract_web_data) and the     *)
(* CSV loader of src/src/backend/main.py (load_data_and_create_graph).     *)
(*                                                                         *)
(* Python str values are TLA+ strings; substring tests, lower-casing and   *)
(* ordering are computed character by character.  A dict is a function     *)
(* whose DOMAIN is its key set; a list is a sequence.                      *)
(***************************************************************************)
EXTENDS Integers, Sequences, FiniteSets, TLC

VARIABLES
    graph,         \* nx.Graph: sequence of [id, data] in insertion order
    vector_store,  \* graph_rag.vector_store: [embeddings_index, metadata];
                   \* embeddings_index.built is FALSE for None
    embedding,     \* behaviour of the embedding model (fixed for a session)
    web_calls,     \* the locations handed to search_and_extract_web_data, in call order
    call,          \* the last completed call: [op, args, ret]; where two
                   \* threads run, the frame of the first: [op, pc, locals]
    prev           \* the completed call before it; where two threads run,
                   \* the frame of the second

vars == <<graph, vector_store, embedding, web_calls, call, prev>>

----------------------------------------------------------------------------
(* Bounds of the model *)

\* words per question
MaxWords == 2

----------------------------------------------------------------------------
(* Python str operations *)

\* the characters the model's strings use, in code-point order
Alphabet == " %.0123456789:ABCDEFGHIJKLMNOPQRSTUVWXYZ_abcdefghijklmnopqrstuvwxyz"

UpperCase == "ABCDEFGHIJKLMNOPQRSTUVWXYZ"

LowerCase == "abcdefghijklmnopqrstuvwxyz"

\* position of character c in string s, 0 when absent
IndexOf(c, s) ==
    IF \E i \in 1..Len(s) : SubSeq(s, i, i) = c
    THEN CHOOSE i \in 1..Len(s) :
             /\ SubSeq(s, i, i) = c
             /\ \A j \in 1..(i - 1) : SubSeq(s, j, j) # c
    ELSE 0

\* the characters of a string
Chars(s) == { SubSeq(s, i, i) : i \in 1..Len(s) }

\* the lower-case letter of every upper-case letter
LowerOf ==
    [ c \in Chars(UpperCase) |->
        SubSeq(LowerCase, IndexOf(c, UpperCase), IndexOf(c, UpperCase)) ]

\* the code-point rank of every character
Ord == [ c \in Chars(Alphabet) |-> IndexOf(c, Alphabet) ]

\* str.lower() of one character
LowerChar(c) == IF c \in DOMAIN LowerOf THEN LowerOf[c] ELSE c

RECURSIVE lower(_)
\* str.lower()
lower(s) ==
    IF Len(s) = 0 THEN ""
    ELSE LowerChar(SubSeq(s, 1, 1)) \o lower(SubSeq(s, 2, Len(s)))

\* Python `term in text` for two str
Contains(term, text) ==
    \E i \in 1..(Len(text) - Len(term) + 1) :
        SubSeq(text, i, i + Len(term) - 1) = term

RECURSIVE StrLess(_, _)
\* Python a < b for two str: lexicographic by code point
StrLess(a, b) ==
    IF Len(b) = 0 THEN FALSE
    ELSE IF Len(a) = 0 THEN TRUE
    ELSE LET ca == Ord[SubSeq(a, 1, 1)]
             cb == Ord[SubSeq(b, 1, 1)]
         IN  IF ca # cb THEN ca < cb
             ELSE StrLess(SubSeq(a, 2, Len(a)), SubSeq(b, 2, Len(b)))

RECURSIVE Join(_, _)
\* sep.join(words)
Join(words, sep) ==
    IF Len(words) = 0 THEN ""
    ELSE IF Len(words) = 1 THEN words[1]
    ELSE words[1] \o sep \o Join(Tail(words), sep)

\* str.replace(' ', '_')
RECURSIVE ReplaceSpaces(_)
ReplaceSpaces(s) ==
    IF Len(s) = 0 THEN ""
    ELSE (IF SubSeq(s, 1, 1) = " " THEN "_" ELSE SubSeq(s, 1, 1))
         \o ReplaceSpaces(SubSeq(s, 2, Len(s)))

\* the elements of a sequence
Range(s) == { s[i] : i \in 1..Len(s) }

RECURSIVE SelectPairs(_, _)
\* [v for (k, v) in pairs if k in text], in the order of pairs
SelectPairs(pairs, text) ==
    IF Len(pairs) = 0 THEN <<>>
    ELSE (IF Contains(pairs[1][1], text) THEN <<pairs[1][2]>> ELSE <<>>)
         \o SelectPairs(Tail(pairs), text)

----------------------------------------------------------------------------
(* extract_entities *)

tech_cities ==
    << "Silicon Valley", "Bay Area", "Seattle", "San Francisco",
       "Austin", "Boston", "New York", "Los Angeles", "Denver", "Portland",
       "Chicago", "Washington DC", "Miami", "Atlanta", "Houston" >>

\* city.lower() of every city of tech_cities
tech_cities_lower == [ i \in 1..Len(tech_cities) |-> lower(tech_cities[i]) ]

wealth_terms ==
    << <<"top 1%", "Top1Percent">>, <<"top 0.1%", "TopPt1Percent">>,
       <<"top one percent", "Top1Percent">>, <<"richest", "Top1Percent">>,
       <<"wealthy", "Top1Percent">>, <<"billionaire", "TopPt1Percent">>,
       <<"next 9", "Next9Percent">>, <<"upper middle", "Next9Percent">>,
       <<"next 40", "Next40Percent">>, <<"middle class", "Next40Percent">>,
       <<"bottom 50", "Bottom50Percent">>, <<"bottom half", "Bottom50Percent">>,
       <<"poorest", "Bottom50Percent">>, <<"poor", "Bottom50Percent">>,
       <<"working class", "Bottom50Percent">> >>

data_types ==
    << <<"wealth", "wealth">>, <<"net worth", "wealth">>,
       <<"income", "income">>, <<"earnings", "income">>,
       <<"assets", "wealth">>, <<"property", "housing">>,
       <<"race", "race">>, <<"racial", "race">>, <<"ethnicity", "race">>,
       <<"age", "age">>, <<"generation", "generation">>,
       <<"education", "education">>, <<"college", "education">>,
       <<"employment", "employment">>, <<"jobs", "employment">>,
       <<"gender", "gender">>, <<"women", "gender">>, <<"men", "gender">> >>

trend_words == << "trend", "change", "increase", "decrease", "growth" >>

policy_words == << "policy", "recommend", "solution", "help", "fix" >>

comparison_words == << "compare", "difference", "vs", "versus" >>

\* any(word in question_lower for word in words)
AnyWordIn(words, question_lower) ==
    \E i \in 1..Len(words) : Contains(words[i], question_lower)

\* QueryType with the policy test ahead of the trend test
QueryType_PolicyFirst(question_lower) ==
    IF AnyWordIn(policy_words, question_lower) THEN "policy"
    ELSE IF AnyWordIn(trend_words, question_lower) THEN "trend"
    ELSE IF AnyWordIn(comparison_words, question_lower) THEN "comparison"
    ELSE "general"

\* graph_rag.py 84-90: the if / elif / elif chain over the keyword lists
QueryType(question_lower) ==
    IF AnyWordIn(trend_words, question_lower) THEN "trend"
    ELSE IF AnyWordIn(policy_words, question_lower) THEN "policy"
    ELSE IF AnyWordIn(comparison_words, question_lower) THEN "comparison"
    ELSE "general"

\* graph_rag.py 46-48: the gazetteer cities named in the question
GazetteerCities(question_lower) ==
    LET hits == SelectSeq([ i \in 1..Len(tech_cities) |-> i ],
                          LAMBDA i : Contains(tech_cities_lower[i], question_lower))
    IN  [ j \in 1..Len(hits) |-> tech_cities[hits[j]] ]

\* f"GEO:{geo}" for every geo
GeoMarked(geos) == [ i \in 1..Len(geos) |-> "GEO:" \o geos[i] ]

\* DefaultBundle without the substitution
DefaultBundle_NoSubstitute(e) == e

\* DefaultBundle that resets the intent with the rest
DefaultBundle_ResetIntent(e) ==
    IF e.entities_list = <<>>
    THEN [ e EXCEPT !.wealth_groups = << "Top1Percent", "Bottom50Percent" >>,
                    !.demographics = << "wealth" >>,
                    !.query_type = "general",
                    !.entities_list = << "Top1Percent", "Bottom50Percent", "wealth" >> ]
    ELSE e

\* graph_rag.py 101-105: the bundle substituted when no search key was found
DefaultBundle(e) ==
    IF e.entities_list = <<>>
    THEN [ e EXCEPT !.wealth_groups = << "Top1Percent", "Bottom50Percent" >>,
                    !.demographics = << "wealth" >>,
                    !.entities_list = << "Top1Percent", "Bottom50Percent", "wealth" >> ]
    ELSE e

\* extract_entities(question), ner being the GPE/LOC entity texts that
\* nlp(question) reports (doc.ents, graph_rag.py 28 and 38)
extract_entities(question, ner) ==
    LET question_lower == lower(question)
        geographic_entities == ner \o GazetteerCities(question_lower)
        wealth_groups == SelectPairs(wealth_terms, question_lower)
        demographics == SelectPairs(data_types, question_lower)
    IN  DefaultBundle(
            [ geographic |-> geographic_entities,
              wealth_groups |-> wealth_groups,
              demographics |-> demographics,
              query_type |-> QueryType(question_lower),
              entities_list |-> GeoMarked(geographic_entities)
                                \o wealth_groups \o demographics ])

----------------------------------------------------------------------------
(* Python values and dicts *)

\* a dict with no key
EmptyDict == [ k \in {} |-> 0 ]

\* a str value
Str(s) == [ t |-> "str", v |-> s ]

\* an int or float value
Num(n) == [ t |-> "num", v |-> n ]

\* float('nan'): what pandas gives for an empty CSV cell
NaN == [ t |-> "nan" ]

\* f"{value}" (numbers are not formatted by the code modelled here)
Format(value) ==
    IF value.t = "str" THEN value.v
    ELSE IF value.t = "nan" THEN "nan"
    ELSE "number"

\* d.get(key, default)
Get(d, key, default) == IF key \in DOMAIN d THEN d[key] ELSE default

\* d.get(key) == s for a str s (a missing key gives None, equal to no str)
GetEquals(d, key, s) == key \in DOMAIN d /\ d[key].t = "str" /\ d[key].v = s

\* {**a, **b}, and a.update(b): the keys of b overwrite those of a
Merged(a, b) ==
    [ k \in (DOMAIN a) \cup (DOMAIN b) |-> IF k \in DOMAIN b THEN b[k] ELSE a[k] ]

\* the position of node_id in the graph, 0 when it is not a node
NodeIndex(g, node_id) ==
    IF \E i \in 1..Len(g) : g[i].id = node_id
    THEN CHOOSE i \in 1..Len(g) : g[i].id = node_id
    ELSE 0

\* nx.Graph.add_node(node_id, **attrs): a new node, or an update of the
\* attribute dict of the node already there
add_node(g, node_id, attrs) ==
    LET i == NodeIndex(g, node_id)
    IN  IF i = 0
        THEN Append(g, [ id |-> node_id, data |-> attrs ])
        ELSE [ g EXCEPT ![i].data = Merged(g[i].data, attrs) ]

----------------------------------------------------------------------------
(* load_data_and_create_graph: the CSV branch *)

\* quarters per CSV file
MaxQuarters == 5

\* the quarters of the CSV files, oldest first
Quarters ==
    << "2019:Q1", "2019:Q2", "2019:Q3", "2019:Q4", "2020:Q1", "2020:Q2",
       "2020:Q3", "2020:Q4" >>

\* the Category column
Categories == << "TopPt1", "Bottom50" >>

\* the data files read, in the order of the data_files dict
DataFiles == << "networth", "income", "race" >>

\* what the CSV files can look like
CsvShapes == { "plain", "race_without_date_column", "income_with_empty_date_cell" }

\* the Date of row (quarter q, category c) of the file of data_type as
\* row.get('Date', 'unknown') gives it
RowDate(shape, data_type, q, c) ==
    IF shape = "race_without_date_column" /\ data_type = "race"
    THEN Str("unknown")
    ELSE IF shape = "income_with_empty_date_cell" /\ data_type = "income"
            /\ q = 1 /\ c = 1
    THEN NaN
    ELSE Str(Quarters[q])

\* main.py 266-273: the node made of one CSV row
CsvNode(shape, data_type, q, c) ==
    LET date == RowDate(shape, data_type, q, c)
        row == IF data_type = "networth"
               THEN [ k \in {"Net worth"} |-> Num(1000 * q + 14000 * (2 - c)) ]
               ELSE EmptyDict
    IN  [ id |-> data_type \o "_" \o Format(date) \o "_" \o Categories[c],
          data |-> Merged(row,
                          [ k \in {"data_type", "Date", "Category"} |->
                                IF k = "data_type" THEN Str(data_type)
                                ELSE IF k = "Date" THEN date
                                ELSE Str(Categories[c]) ]) ]

\* the rows of one file, in file order
FileNodes(shape, data_type, quarters) ==
    [ r \in 1..(quarters * Len(Categories)) |->
        CsvNode(shape, data_type,
                ((r - 1) \div Len(Categories)) + 1,
                ((r - 1) % Len(Categories)) + 1) ]

RECURSIVE AddNodes(_, _)
\* G.add_node for every row
AddNodes(g, nodes) ==
    IF Len(nodes) = 0 \/ Len(g) < 0 THEN g
    ELSE AddNodes(add_node(g, nodes[1].id, nodes[1].data), Tail(nodes))

RECURSIVE AllFileNodes(_, _, _)
\* all_records: the rows of the data files, file after file
AllFileNodes(shape, files, quarters) ==
    IF Len(files) = 0 THEN <<>>
    ELSE FileNodes(shape, files[1], quarters)
         \o AllFileNodes(shape, Tail(files), quarters)

\* main.py 208-283: the graph of the CSV files
load_data_and_create_graph(shape, quarters) ==
    AddNodes(<<>>, AllFileNodes(shape, DataFiles, quarters))

----------------------------------------------------------------------------
(* VectorStore *)

\* the embedding models of a session
MaxEmbeddings == 2

\* squared L2 distances n/d that the index reports
Distances ==
    << [ n |-> 0, d |-> 1 ], [ n |-> 2, d |-> 1 ],
       [ n |-> 7, d |-> 3 ], [ n |-> 3, d |-> 1 ] >>

\* a < b for two fractions
FracLess(a, b) == a.n * b.d < b.n * a.d

\* the distance between the embeddings of the query and of document j: a
\* function of the two texts fixed by the embedding model
Distance(emb, query, j) ==
    Distances[((Len(query) + j + emb.seed) % Len(Distances)) + 1]

RECURSIVE NearestFirst(_, _, _)
\* IndexFlatL2.search: the documents of S by growing distance, ties by
\* position
NearestFirst(emb, query, S) ==
    IF S = {} THEN <<>>
    ELSE LET j == CHOOSE x \in S :
                      \A y \in S \ {x} :
                          \/ FracLess(Distance(emb, query, x), Distance(emb, query, y))
                          \/ /\ ~FracLess(Distance(emb, query, y), Distance(emb, query, x))
                             /\ x < y
         IN  <<j>> \o NearestFirst(emb, query, S \ {j})

\* vector_embeddings.py 130: similarity = 1 / (1 + distance), as a fraction
Similarity(distance) == [ n |-> distance.d, d |-> distance.n + distance.d ]

\* the smaller of two numbers
Min(a, b) == IF a < b THEN a ELSE b

\* VectorStore.add_documents(documents)
add_documents(vs, emb, documents) ==
    IF ~emb.loaded THEN vs
    ELSE [ embeddings_index |->
               IF Len(documents) > 0
               THEN [ built |-> TRUE, ntotal |-> Len(documents) ]
               ELSE vs.embeddings_index,
           metadata |-> documents ]

\* vector_search that tests the embedding model alone before it asks the
\* index
vector_search_NoIndexTest(vs, emb, query, top_k) ==
    IF ~emb.loaded
    THEN [ kind |-> "ok", results |-> <<>> ]
    ELSE IF ~vs.embeddings_index.built
    THEN [ kind |-> "raise", exc |-> "AttributeError" ]
    ELSE LET k == Min(top_k, Len(vs.metadata))
             ranked == NearestFirst(emb, query, 1..vs.embeddings_index.ntotal)
             indices == SubSeq(ranked, 1, Min(k, Len(ranked)))
             similarity == [ i \in 1..Len(indices) |->
                               Similarity(Distance(emb, query, indices[i])) ]
         IN  IF k = 0
             THEN [ kind |-> "raise", exc |-> "AssertionError" ]
             ELSE [ kind |-> "ok",
                    results |-> IF indices[1] <= Len(vs.metadata)
                                THEN << <<indices[1], similarity>> >>
                                ELSE <<>> ]

\* VectorStore.search(query, top_k): [kind |-> "ok", results] or a raise.
\* zip(indices[0], distances) pairs the first index with the whole first
\* row of distances, so a result is <<document, similarities>>.
vector_search(vs, emb, query, top_k) ==
    IF ~emb.loaded \/ ~vs.embeddings_index.built
    THEN [ kind |-> "ok", results |-> <<>> ]
    ELSE LET k == Min(top_k, Len(vs.metadata))
             ranked == NearestFirst(emb, query, 1..vs.embeddings_index.ntotal)
             indices == SubSeq(ranked, 1, Min(k, Len(ranked)))
             similarity == [ i \in 1..Len(indices) |->
                               Similarity(Distance(emb, query, indices[i])) ]
         IN  IF k = 0
             THEN [ kind |-> "raise", exc |-> "AssertionError" ]
             ELSE [ kind |-> "ok",
                    results |-> IF indices[1] <= Len(vs.metadata)
                                THEN << <<indices[1], similarity>> >>
                                ELSE <<>> ]

----------------------------------------------------------------------------
(* search_graph *)

\* the result cap of search_graph
MaxResults == 10

\* the relevance threshold 0.3 of search_graph
Threshold == [ n |-> 3, d |-> 10 ]

\* graph_rag.py 120-127: node matches one of the entities
KeywordMatch(node, entities) ==
    LET node_id_lower == lower(node.id)
    IN  \E i \in 1..Len(entities) :
            \/ GetEquals(node.data, "data_type", entities[i])
            \/ GetEquals(node.data, "category", entities[i])
            \/ Contains(lower(entities[i]), node_id_lower)

\* graph_rag.py 116-127: the attribute dicts of the matching nodes, in
\* graph order; obj is the identity id() sees
KeywordMatches(g, entities) ==
    LET hits == SelectSeq(g, LAMBDA node : KeywordMatch(node, entities))
    IN  [ i \in 1..Len(hits) |->
            [ obj |-> << "graph", hits[i].id >>, data |-> hits[i].data ] ]

\* SemanticHits that stores the score in the document itself instead of
\* in a copy of it
SemanticHits_InPlace(vs, results) ==
    IF \E i \in 1..Len(results) : Len(results[i][2]) # 1
    THEN [ kind |-> "raise", exc |-> "ValueError", metadata |-> vs.metadata ]
    ELSE LET kept == SelectSeq(results,
                         LAMBDA r : FracLess(Threshold, r[2][1]))
             scored(i) == Merged(vs.metadata[kept[i][1]],
                                 [ k \in {"_similarity_score"} |->
                                     [ t |-> "frac", v |-> kept[i][2][1] ] ])
         IN  [ kind |-> "ok",
               nodes |-> [ i \in 1..Len(kept) |->
                   [ obj |-> << "doc", kept[i][1] >>, data |-> scored(i) ] ],
               metadata |-> [ j \in 1..Len(vs.metadata) |->
                   IF \E i \in 1..Len(kept) : kept[i][1] = j
                   THEN scored(CHOOSE i \in 1..Len(kept) : kept[i][1] = j)
                   ELSE vs.metadata[j] ] ]

\* graph_rag.py 136-138: the copies {**doc, '_similarity_score': s} of the
\* documents found, or the ValueError of `similarity_score > 0.3` on an
\* array of more than one similarity; metadata is the stored documents
\* after the loop
SemanticHits(vs, results) ==
    IF \E i \in 1..Len(results) : Len(results[i][2]) # 1
    THEN [ kind |-> "raise", exc |-> "ValueError", metadata |-> vs.metadata ]
    ELSE LET kept == SelectSeq(results,
                         LAMBDA r : FracLess(Threshold, r[2][1]))
         IN  [ kind |-> "ok",
               nodes |-> [ i \in 1..Len(kept) |->
                   [ obj |-> << "copy", i >>,
                     data |-> Merged(vs.metadata[kept[i][1]],
                                     [ k \in {"_similarity_score"} |->
                                         [ t |-> "frac", v |-> kept[i][2][1] ] ]) ] ],
               metadata |-> vs.metadata ]

\* graph_rag.py 129-149: the semantic pass and the hybrid combination
RelevantNodes(g, vs, emb, entities) ==
    LET keyword_matches == KeywordMatches(g, entities)
        searched ==
            IF vs.embeddings_index.built /\ Len(vs.metadata) > 0
            THEN vector_search(vs, emb, Join(entities, " "), MaxResults)
            ELSE [ kind |-> "ok", results |-> <<>> ]
        semantic == IF searched.kind = "ok"
                    THEN SemanticHits(vs, searched.results)
                    ELSE [ kind |-> "raise", exc |-> searched.exc,
                           metadata |-> vs.metadata ]
    IN  [ nodes |-> IF semantic.kind = "raise" THEN keyword_matches
                    ELSE IF Len(keyword_matches) > 0
                         THEN semantic.nodes \o keyword_matches
                         ELSE semantic.nodes,
          metadata |-> semantic.metadata ]

RECURSIVE Unique(_, _)
\* graph_rag.py 151-158: the first occurrence of every object
Unique(nodes, seen_ids) ==
    IF Len(nodes) = 0 THEN <<>>
    ELSE IF nodes[1].obj \in seen_ids THEN Unique(Tail(nodes), seen_ids)
    ELSE <<nodes[1]>> \o Unique(Tail(nodes), seen_ids \cup {nodes[1].obj})

\* the sort key x.get('Date', '1989:Q1')
DateKey(node) == Get(node.data, "Date", Str("1989:Q1"))

\* Python a < b on two sort keys that are both str or both float
KeyLess(a, b) == a.t = "str" /\ b.t = "str" /\ StrLess(a.v, b.v)

RECURSIVE InsertDescending(_, _)
\* x put behind every element whose key is not below the key of x
InsertDescending(sorted, x) ==
    IF Len(sorted) = 0 THEN <<x>>
    ELSE IF KeyLess(DateKey(sorted[1]), DateKey(x)) THEN <<x>> \o sorted
    ELSE <<sorted[1]>> \o InsertDescending(Tail(sorted), x)

RECURSIVE SortedByDateDescending(_)
\* sorted(nodes, key=Date, reverse=True): stable
SortedByDateDescending(nodes) ==
    IF Len(nodes) = 0 THEN <<>>
    ELSE InsertDescending(SortedByDateDescending(SubSeq(nodes, 1, Len(nodes) - 1)),
                          nodes[Len(nodes)])

\* sorted() compares a str key with a float key: TypeError
MixedKeys(nodes) ==
    /\ \E i \in 1..Len(nodes) : DateKey(nodes[i]).t = "str"
    /\ \E i \in 1..Len(nodes) : DateKey(nodes[i]).t # "str"

\* Capped that keeps one node too many
Capped_OneMore(unique_nodes) ==
    IF Len(unique_nodes) > MaxResults
    THEN IF MixedKeys(unique_nodes)
         THEN [ kind |-> "raise", exc |-> "TypeError" ]
         ELSE [ kind |-> "ok",
                nodes |-> SubSeq(SortedByDateDescending(unique_nodes), 1,
                                 MaxResults + 1) ]
    ELSE [ kind |-> "ok", nodes |-> unique_nodes ]

\* graph_rag.py 160-164: the cap
Capped(unique_nodes) ==
    IF Len(unique_nodes) > MaxResults
    THEN IF MixedKeys(unique_nodes)
         THEN [ kind |-> "raise", exc |-> "TypeError" ]
         ELSE [ kind |-> "ok",
                nodes |-> SubSeq(SortedByDateDescending(unique_nodes), 1, MaxResults) ]
    ELSE [ kind |-> "ok", nodes |-> unique_nodes ]

\* search_graph(graph, entities) with the module's vector_store: what it
\* returns or raises, its unique_nodes before the cap, and the documents of
\* the vector store after it
search_graph(g, vs, emb, entities) ==
    LET relevant_nodes == RelevantNodes(g, vs, emb, entities)
        unique_nodes == Unique(relevant_nodes.nodes, {})
    IN  [ result |-> Capped(unique_nodes),
          unique_nodes |-> unique_nodes,
          metadata |-> relevant_nodes.metadata ]

----------------------------------------------------------------------------
(* add_node_to_graph *)

\* Python None
None == [ t |-> "none" ]

\* bool(value) of a str or None
Truthy(value) == value.t = "str" /\ value.v # ""

\* f"local_{location_name.replace(' ', '_')}"
LocalId(location_name) == "local_" \o ReplaceSpaces(location_name)

\* add_node_to_graph that stores the incoming payload in place of the
\* attributes of the node already there
add_node_to_graph_Replace(g, node_data) ==
    LET location_name == Get(node_data, "Neighborhood Name", None)
    IN  IF ~Truthy(location_name) THEN g
        ELSE LET node_id == LocalId(location_name.v)
                 i == NodeIndex(g, node_id)
             IN  IF i = 0
                 THEN add_node(g, node_id,
                               Merged([ k \in {"data_type"} |-> Str("local") ],
                                      node_data))
                 ELSE [ g EXCEPT ![i].data = node_data ]

\* graph_rag.py 314-332: the graph after add_node_to_graph(graph, node_data)
add_node_to_graph(g, node_data) ==
    LET location_name == Get(node_data, "Neighborhood Name", None)
    IN  IF ~Truthy(location_name) THEN g
        ELSE LET node_id == LocalId(location_name.v)
                 i == NodeIndex(g, node_id)
             IN  IF i = 0
                 THEN add_node(g, node_id,
                               Merged([ k \in {"data_type"} |-> Str("local") ],
                                      node_data))
                 ELSE [ g EXCEPT ![i].data = Merged(g[i].data, node_data) ]

----------------------------------------------------------------------------
(* The collaborators of get_graph_rag_context *)

\* the upper-case letter of every lower-case letter
UpperOf ==
    [ c \in Chars(LowerCase) |->
        SubSeq(UpperCase, IndexOf(c, LowerCase), IndexOf(c, LowerCase)) ]

RECURSIVE upper(_)
\* str.upper()
upper(s) ==
    IF Len(s) = 0 THEN ""
    ELSE (IF SubSeq(s, 1, 1) \in DOMAIN UpperOf
          THEN UpperOf[SubSeq(s, 1, 1)] ELSE SubSeq(s, 1, 1))
         \o upper(SubSeq(s, 2, Len(s)))

\* what the government services answer for a state code
GovOutcomes == { "no_data", "unemployment" }

\* government_api.py 240-270: the indicators dict, never empty; the BLS
\* and FRED wrappers catch their own errors and answer {} (the timestamp
\* and the empty data_sources list are left out)
get_local_economic_indicators(state, outcome) ==
    Merged([ k \in {"state", "county"} |-> IF k = "state" THEN Str(state) ELSE None ],
           IF outcome = "unemployment"
           THEN [ k \in {"unemployment"} |-> Num(4) ]
           ELSE EmptyDict)

\* what the Exa search and the LLM extractor produce for a location: no
\* result or an error, metrics, or a page without a usable metric
WebOutcomes == { "nothing", "metrics", "page" }

\* search_and_extract_web_data whose page-preview fallback carries no Source
search_and_extract_web_data_NoSource(query, outcome) ==
    LET annotated == [ k \in {"Neighborhood Name", "Source", "data_type"} |->
                         IF k = "Neighborhood Name" THEN Str(query)
                         ELSE IF k = "Source" THEN Str("https://census.gov/" \o outcome)
                         ELSE Str("local") ]
    IN  IF outcome = "nothing" THEN EmptyDict
        ELSE IF outcome = "metrics"
        THEN Merged([ k \in {"Population"} |-> Num(1) ], annotated)
        ELSE [ k \in {"Neighborhood Name", "Title", "Content_Preview", "data_type"} |->
                 IF k = "Neighborhood Name" THEN Str(query)
                 ELSE IF k = "Title" THEN Str("No title")
                 ELSE IF k = "Content_Preview" THEN Str("text")
                 ELSE Str("local") ]

\* web_search.py 58-158: the dict search_and_extract_web_data returns;
\* every exception is caught inside and answered with {}
search_and_extract_web_data(query, outcome) ==
    LET annotated == [ k \in {"Neighborhood Name", "Source", "data_type"} |->
                         IF k = "Neighborhood Name" THEN Str(query)
                         ELSE IF k = "Source" THEN Str("https://census.gov/" \o outcome)
                         ELSE Str("local") ]
    IN  IF outcome = "nothing" THEN EmptyDict
        ELSE IF outcome = "metrics"
        THEN Merged([ k \in {"Population"} |-> Num(1) ], annotated)
        ELSE Merged([ k \in {"Title", "Content_Preview"} |->
                        IF k = "Title" THEN Str("No title") ELSE Str("text") ],
                    annotated)

----------------------------------------------------------------------------
(* get_graph_rag_context *)

\* whether analyze_wealth_gap_trends returns or raises
TrendOutcomes == { "analysis", "raise" }

\* whether get_policy_recommendations_for_region returns its list of
\* recommendations or the import of its module raises
PolicyOutcomes == { "recommendations", "raise" }

\* graph_rag.py 183-184: the fields create_context_from_nodes renders
key_fields ==
    << "Net worth", "Assets", "Real estate",
       "Corporate equities and mutual fund shares", "Liabilities",
       "Home mortgages", "Consumer credit", "Median Income", "Mean Income" >>

Digits == "0123456789"

RECURSIVE DecimalOf(_)
\* the decimal digits of a natural number
DecimalOf(n) ==
    IF n < 10 THEN SubSeq(Digits, n + 1, n + 1)
    ELSE DecimalOf(n \div 10) \o SubSeq(Digits, (n % 10) + 1, (n % 10) + 1)

Abs(n) == IF n < 0 THEN -n ELSE n

\* f"{n/1000:.1f}" for an integer-valued n: one decimal, round half to
\* even; a tie is exact in binary floating point when n/1000 is a multiple
\* of 1/4, the other ties are not among the values of the model
OneDecimal(n) ==
    LET tenths == Abs(n) \div 100
        rest == Abs(n) % 100
        rounded == IF rest > 50 \/ (rest = 50 /\ tenths % 2 = 1)
                   THEN tenths + 1 ELSE tenths
    IN  (IF n < 0 THEN "-" ELSE "")
        \o DecimalOf(rounded \div 10) \o "." \o DecimalOf(rounded % 10)

RECURSIVE Grouped(_)
\* the digits of a natural number with a comma between groups of three
Grouped(n) ==
    IF n < 1000 THEN DecimalOf(n)
    ELSE Grouped(n \div 1000) \o ","
         \o (IF n % 1000 < 10 THEN "00" ELSE IF n % 1000 < 100 THEN "0" ELSE "")
         \o DecimalOf(n % 1000)

\* f"{n:,.0f}" for an integer-valued n
WholeGrouped(n) == (IF n < 0 THEN "-" ELSE "") \o Grouped(Abs(n))

\* s is a non-empty string of digits
IsDigits(s) == Len(s) > 0 /\ \A i \in 1..Len(s) : SubSeq(s, i, i) \in Chars(Digits)

RECURSIVE IntOf(_)
\* the number a string of digits writes
IntOf(s) ==
    IF Len(s) = 0 THEN 0
    ELSE 10 * IntOf(SubSeq(s, 1, Len(s) - 1))
         + IndexOf(SubSeq(s, Len(s), Len(s)), Digits) - 1

\* graph_rag.py 188-196: float(value), "raise" for the ValueError or
\* TypeError of a value that is no number (of the str values, the model
\* converts strings of digits)
Float(value) ==
    IF value.t = "num" \/ value.t = "nan" THEN value
    ELSE IF value.t = "str" /\ IsDigits(value.v) THEN Num(IntOf(value.v))
    ELSE [ t |-> "raise" ]

\* Display with a lower-case b for billions
Display_LowerCase(value) ==
    LET number == Float(value)
    IN  IF number.t = "raise" THEN Format(value)
        ELSE IF number.t = "nan" THEN "$nan"
        ELSE IF Abs(number.v) >= 1000 THEN "$" \o OneDecimal(number.v) \o "b"
        ELSE "$" \o WholeGrouped(number.v)

\* graph_rag.py 188-198: what is shown for the value of a field
Display(value) ==
    LET number == Float(value)
    IN  IF number.t = "raise" THEN Format(value)
        ELSE IF number.t = "nan" THEN "$nan"
        ELSE IF Abs(number.v) >= 1000 THEN "$" \o OneDecimal(number.v) \o "B"
        ELSE "$" \o WholeGrouped(number.v)

\* graph_rag.py 186-198: the lines of the fields of a node, after the
\* bullet: f"{field}: {value_display}"
FieldLines(node_data) ==
    LET present == SelectSeq(key_fields,
                             LAMBDA field : field \in DOMAIN node_data
                                            /\ node_data[field] # None)
    IN  [ i \in 1..Len(present) |->
            [ field |-> present[i],
              text |-> present[i] \o ": " \o Display(node_data[present[i]]) ] ]

\* graph_rag.py 169-202: the context of the ranked nodes as a sequence of
\* blocks of text, or the AttributeError of data_type.title() on a
\* data_type that is no str; of a node's block the lines of its fields
\* are modelled, the wording of its first line is not
create_context_from_nodes(nodes) ==
    IF Len(nodes) = 0
    THEN [ kind |-> "ok",
           context |-> << [ section |-> "text",
                            text |-> "No specific data found for the wealth groups or time periods in the question." ] >> ]
    ELSE IF \E i \in 1..Len(nodes) :
                Get(nodes[i].data, "data_type", Str("Unknown")).t # "str"
    THEN [ kind |-> "raise", exc |-> "AttributeError" ]
    ELSE [ kind |-> "ok",
           context |->
               << [ section |-> "text",
                    text |-> "=== FEDERAL RESERVE WEALTH DISTRIBUTION DATA ===" ] >>
               \o [ i \in 1..Len(nodes) |->
                      [ section |-> "node", node |-> nodes[i].data,
                        lines |-> FieldLines(nodes[i].data) ] ] ]

RECURSIVE LocalLoop(_, _, _, _)
\* graph_rag.py 234-258: the loop over the geographic entities; the graph
\* after it, local_nodes, and the locations handed to the web search
LocalLoop(g, locations, gov, web) ==
    IF Len(locations) = 0
    THEN [ graph |-> g, local_nodes |-> <<>>, searched |-> <<>> ]
    ELSE LET location == Head(locations)
             state_code == upper(SubSeq(location, 1, Min(2, Len(location))))
             indicators == IF Len(location) > 0
                           THEN << get_local_economic_indicators(state_code, gov) >>
                           ELSE <<>>
             local_data == search_and_extract_web_data(location, web)
             found == DOMAIN local_data # {}
             rest == LocalLoop(IF found THEN add_node_to_graph(g, local_data) ELSE g,
                               Tail(locations), gov, web)
         IN  [ graph |-> rest.graph,
               local_nodes |-> indicators
                               \o (IF found THEN << local_data >> ELSE <<>>)
                               \o rest.local_nodes,
               searched |-> << location >> \o rest.searched ]

\* policy_recommendations.py 67-268: the keys of POLICY_DATABASE with the
\* titles of the policies, in the order of the dict
POLICY_DATABASE ==
    << << "education_investment", "Community College & Apprenticeship Expansion" >>,
       << "minimum_wage", "Regional Minimum Wage Adjustment" >>,
       << "wealth_building", "Universal Savings Accounts & Matched Deposits" >>,
       << "progressive_taxation", "Progressive Tax Reform with Wealth Tax" >>,
       << "home_ownership", "Down Payment Assistance & Community Development Banking" >>,
       << "small_business", "Targeted Small Business Access to Capital" >>,
       << "earned_income_tax", "Expanded Earned Income Tax Credit (EITC)" >>,
       << "healthcare_access", "Universal Healthcare or Expanded Coverage" >>,
       << "housing_first", "Housing-First Homelessness Prevention" >>,
       << "land_value_tax", "Land Value Tax Implementation" >> >>

\* str.replace('_', ' ')
RECURSIVE ReplaceUnderscores(_)
ReplaceUnderscores(s) ==
    IF Len(s) = 0 THEN ""
    ELSE (IF SubSeq(s, 1, 1) = "_" THEN " " ELSE SubSeq(s, 1, 1))
         \o ReplaceUnderscores(SubSeq(s, 2, Len(s)))

\* scores[key] = score on a dict kept as its items in insertion order
Put(scores, key, score) ==
    IF \E i \in 1..Len(scores) : scores[i][1] = key
    THEN [ i \in 1..Len(scores) |->
             IF scores[i][1] = key THEN << key, score >> ELSE scores[i] ]
    ELSE Append(scores, << key, score >>)

RECURSIVE PutAll(_, _)
\* the assignments of items, one after the other
PutAll(scores, items) ==
    IF Len(items) = 0 THEN scores
    ELSE PutAll(Put(scores, items[1][1], items[1][2]), Tail(items))

\* policy_recommendations.py 304-336: the scores of the policies, in tenths.
\* The situation gives gini_coefficient in hundredths, unemployment_rate in
\* tenths, the shares, poverty_rate and the two gaps in whole numbers.
Scores(situation) ==
    LET inequality ==
            IF situation.gini_coefficient > 50
            THEN << << "education_investment", 90 >>, << "progressive_taxation", 85 >>,
                    << "wealth_building", 80 >> >>
            ELSE <<>>
        top_share ==
            IF situation.top_1_percent_share > 35
            THEN << << "progressive_taxation", 90 >>, << "wealth_building", 80 >>,
                    << "land_value_tax", 75 >> >>
            ELSE <<>>
        poverty ==
            IF situation.poverty_rate > 15 \/ situation.bottom_50_percent_share < 3
            THEN << << "earned_income_tax", 90 >>, << "minimum_wage", 85 >>,
                    << "education_investment", 80 >>, << "housing_first", 75 >> >>
            ELSE <<>>
        unemployment ==
            IF situation.unemployment_rate > 50
            THEN << << "education_investment", 85 >>, << "small_business", 80 >>,
                    << "employment", 75 >> >>
            ELSE <<>>
        racial ==
            IF situation.racial_wealth_gap > 10
            THEN << << "housing", 85 >>, << "small_business", 85 >>,
                    << "homeownership", 80 >> >>
            ELSE <<>>
        gender ==
            IF situation.gender_wage_gap > 20
            THEN << << "minimum_wage", 80 >>, << "education_investment", 75 >> >>
            ELSE <<>>
    IN  PutAll(<<>>, inequality \o top_share \o poverty \o unemployment
                     \o racial \o gender)

RECURSIVE InsertByScore(_, _)
\* x put behind every element whose score is not below the score of x
InsertByScore(sorted, x) ==
    IF Len(sorted) = 0 THEN <<x>>
    ELSE IF sorted[1][2] < x[2] THEN <<x>> \o sorted
    ELSE <<sorted[1]>> \o InsertByScore(Tail(sorted), x)

RECURSIVE SortedByScore(_)
\* sorted(items, key=score, reverse=True): stable
SortedByScore(items) ==
    IF Len(items) = 0 THEN <<>>
    ELSE InsertByScore(SortedByScore(SubSeq(items, 1, Len(items) - 1)),
                       items[Len(items)])

\* policy_recommendations.py 343-344: the policy of the database a score key
\* stands for
Matches(db_key, policy_key) ==
    \/ Contains(ReplaceUnderscores(db_key), policy_key)
    \/ Contains(policy_key, db_key)

RECURSIVE UniqueTitles(_, _)
\* policy_recommendations.py 354-359: the first recommendation of every title
UniqueTitles(recs, seen) ==
    IF Len(recs) = 0 THEN <<>>
    ELSE IF recs[1][1].title \in seen THEN UniqueTitles(Tail(recs), seen)
    ELSE <<recs[1]>> \o UniqueTitles(Tail(recs), seen \cup {recs[1][1].title})

\* policy_recommendations.py 299-361: at most 5 recommendations, the highest
\* priority first
get_recommendations_for_situation(situation) ==
    LET scored == SortedByScore(Scores(situation))
        matched == SelectSeq(scored,
                             LAMBDA item : \E d \in 1..Len(POLICY_DATABASE) :
                                 Matches(POLICY_DATABASE[d][1], item[1]))
        recommendations ==
            [ i \in 1..Len(matched) |->
                LET d == CHOOSE d \in 1..Len(POLICY_DATABASE) :
                             /\ Matches(POLICY_DATABASE[d][1], matched[i][1])
                             /\ \A e \in 1..(d - 1) :
                                    ~Matches(POLICY_DATABASE[e][1], matched[i][1])
                IN  << [ title |-> POLICY_DATABASE[d][2],
                         description |-> "description of " \o POLICY_DATABASE[d][1],
                         priority_score |-> Min(100, matched[i][2]) ],
                       Min(100, matched[i][2]) >> ]
        ranked == SortedByScore(UniqueTitles(recommendations, {}))
    IN  [ i \in 1..Min(5, Len(ranked)) |-> ranked[i][1] ]

\* graph_rag.py 277-284: the metrics get_graph_rag_context hands over
region_data(geographic_entities) ==
    [ gini_coefficient |-> 45,
      top_1_percent_share |-> 35,
      bottom_50_percent_share |-> 3,
      unemployment_rate |-> 45,
      poverty_rate |-> 12,
      region |-> IF Len(geographic_entities) > 0
                 THEN geographic_entities[1] ELSE "National" ]

\* policy_recommendations.py 425-445: region_data carries no demographics
get_policy_recommendations_for_region(region) ==
    get_recommendations_for_situation(
        [ gini_coefficient |-> region.gini_coefficient,
          top_1_percent_share |-> region.top_1_percent_share,
          bottom_50_percent_share |-> region.bottom_50_percent_share,
          unemployment_rate |-> region.unemployment_rate,
          poverty_rate |-> region.poverty_rate,
          racial_wealth_gap |-> 0,
          gender_wage_gap |-> 0 ])

\* graph_rag.py 286-293: the policy section of the recommendations, none
\* when there is no recommendation
PolicySection(recommendations) ==
    IF Len(recommendations) > 0
    THEN << [ section |-> "text", text |-> "=== POLICY RECOMMENDATIONS ===" ],
            [ section |-> "policy",
              recommendations |-> SubSeq(recommendations, 1,
                                         Min(3, Len(recommendations))) ] >>
    ELSE <<>>

\* IntentSections that writes the header of the trend section before it
\* calls analyze_wealth_gap_trends
IntentSections_HeaderFirst(query_type, relevant_nodes, geographic_entities, trend, policy) ==
    (IF query_type = "trend" /\ Len(relevant_nodes) > 0
     THEN << [ section |-> "text", text |-> "=== TREND ANALYSIS ===" ] >>
          \o (IF trend = "analysis" THEN << [ section |-> "trend" ] >> ELSE <<>>)
     ELSE <<>>)
    \o (IF query_type = "policy" /\ Len(relevant_nodes) > 0
           /\ policy = "recommendations"
        THEN PolicySection(get_policy_recommendations_for_region(
                               region_data(geographic_entities)))
        ELSE <<>>)

\* graph_rag.py 263-293: the trend section (its header and its
\* "Overall trend" line, both added after analyze_wealth_gap_trends has
\* returned) and the policy section
IntentSections(query_type, relevant_nodes, geographic_entities, trend, policy) ==
    (IF query_type = "trend" /\ Len(relevant_nodes) > 0 /\ trend = "analysis"
     THEN << [ section |-> "text", text |-> "=== TREND ANALYSIS ===" ],
             [ section |-> "trend" ] >>
     ELSE <<>>)
    \o (IF query_type = "policy" /\ Len(relevant_nodes) > 0
           /\ policy = "recommendations"
        THEN PolicySection(get_policy_recommendations_for_region(
                               region_data(geographic_entities)))
        ELSE <<>>)

\* graph_rag.py 295-310: the local section, or the note that nothing local
\* was found
LocalSections(geographic_entities, local_nodes) ==
    IF Len(local_nodes) > 0
    THEN << [ section |-> "text", text |-> "=== LOCAL & REGIONAL DATA ===" ] >>
         \o [ i \in 1..Len(local_nodes) |->
                [ section |-> "local",
                  location_name |->
                      Get(local_nodes[i], "Neighborhood Name",
                          Get(local_nodes[i], "region", Str("Local area"))),
                  data |-> local_nodes[i] ] ]
    ELSE IF Len(geographic_entities) > 0
    THEN << [ section |-> "note", locations |-> Join(geographic_entities, ", ") ] >>
    ELSE <<>>

\* what a search pass came to, with the entity lists searched with so far
WithPasses(searched, passes) ==
    [ result |-> searched.result,
      passes |-> passes,
      metadata |-> searched.metadata ]

\* SecondPass that makes the second pass whatever the first returned
SecondPass_Always(g, vs, emb, entities_list, first) ==
    IF first.result.kind = "ok"
    THEN WithPasses(search_graph(g, [ vs EXCEPT !.metadata = first.metadata ],
                                 emb, << "wealth", "income" >>),
                    << entities_list, << "wealth", "income" >> >>)
    ELSE WithPasses(first, << entities_list >>)

\* graph_rag.py 224-228: the second pass, made when the first returned
\* no node
SecondPass(g, vs, emb, entities_list, first) ==
    IF first.result.kind = "ok" /\ Len(first.result.nodes) = 0
    THEN WithPasses(search_graph(g, [ vs EXCEPT !.metadata = first.metadata ],
                                 emb, << "wealth", "income" >>),
                    << entities_list, << "wealth", "income" >> >>)
    ELSE WithPasses(first, << entities_list >>)

\* graph_rag.py 212-228: the search passes; what the last one returned or
\* raised, the entity lists searched with, the vector store's documents
SearchPasses(g, vs, emb, entities_list) ==
    SecondPass(g, vs, emb, entities_list,
               search_graph(g, vs, emb, entities_list))

\* graph_rag.py 230-312: the rest of get_graph_rag_context once the
\* search passes have returned searched
AssembledContext(g, entity_data, searched, o) ==
    LET looped == LocalLoop(g, entity_data.geographic, o.gov, o.web)
        rendered == create_context_from_nodes(searched.result.nodes)
    IN  [ ret |-> IF rendered.kind = "raise" THEN rendered
                  ELSE [ kind |-> "ok",
                         context |->
                             rendered.context
                             \o IntentSections(entity_data.query_type,
                                               searched.result.nodes,
                                               entity_data.geographic,
                                               o.trend, o.policy)
                             \o LocalSections(entity_data.geographic,
                                              looped.local_nodes) ],
          graph |-> looped.graph,
          metadata |-> searched.metadata,
          web_searched |-> looped.searched,
          passes |-> searched.passes,
          relevant_nodes |-> searched.result.nodes,
          local_nodes |-> looped.local_nodes ]

\* graph_rag.py 204-312: get_graph_rag_context(question, graph), given
\* the entity_data its extract_entities call returned and what its search
\* passes came to: what it returns or raises, the graph and the vector
\* store's documents after it, the locations it handed to the web
\* search, its search passes, its relevant_nodes and local_nodes
get_graph_rag_context(entity_data, searched, g, o) ==
    IF searched.result.kind = "raise"
    THEN [ ret |-> searched.result, graph |-> g,
           metadata |-> searched.metadata,
           web_searched |-> <<>>, passes |-> searched.passes,
           relevant_nodes |-> <<>>, local_nodes |-> <<>> ]
    ELSE AssembledContext(g, entity_data, searched, o)

----------------------------------------------------------------------------
(* Questions put to the engine *)

\* the words and phrases questions are made of
Words ==
    << "Seattle", "Paris", "wealthy", "poorest", "income", "race",
       "trend", "recommend", "versus", "about",
       "What is the top 1% wealth in 2020?" >>

\* the words nlp() may label GPE or LOC
GpeNames == { "Seattle", "Paris" }

\* a question as the sequence of the indices of its words
WordSeqs == UNION { [1..n -> 1..Len(Words)] : n \in 0..MaxWords }

\* the text of the question
QuestionText(ws) == Join([ i \in 1..Len(ws) |-> Words[ws[i]] ], " ")

\* the positions of the question that nlp() may report as an entity
GpePositions(ws) == { i \in 1..Len(ws) : Words[ws[i]] \in GpeNames }

\* doc.ents restricted to GPE/LOC when nlp() labels the positions in P
NerTexts(ws, P) ==
    LET picked == SelectSeq([ i \in 1..Len(ws) |-> i ], LAMBDA i : i \in P)
    IN  [ j \in 1..Len(picked) |-> Words[ws[picked[j]]] ]

----------------------------------------------------------------------------
(* State shared by the specifications *)

NoCall == [ op |-> "none" ]

\* VectorStore.__init__: no index, no documents
VectorStoreInit ==
    [ embeddings_index |-> [ built |-> FALSE, ntotal |-> 0 ], metadata |-> <<>> ]

----------------------------------------------------------------------------
(* Specification of extract_entities as a function of the question *)

\* the inputs: a question and the entities nlp() reports in it
InitExtract ==
    /\ graph = <<>>
    /\ vector_store = VectorStoreInit
    /\ embedding = [ loaded |-> TRUE, seed |-> 0 ]
    /\ web_calls = <<>>
    /\ prev = NoCall
    /\ \E ws \in WordSeqs :
           \E P \in SUBSET GpePositions(ws) :
               call = [ op |-> "extract_entities",
                        args |-> [ question |-> QuestionText(ws),
                                   ner |-> NerTexts(ws, P) ],
                        done |-> FALSE ]

\* the call of extract_entities on the inputs
ExtractEntities ==
    /\ call.op = "extract_entities"
    /\ ~call.done
    /\ call' = [ op |-> "extract_entities",
                 args |-> call.args,
                 done |-> TRUE,
                 ret |-> extract_entities(call.args.question, call.args.ner) ]
    /\ UNCHANGED <<graph, vector_store, embedding, web_calls, prev>>

NextExtract == ExtractEntities

SpecExtract == InitExtract /\ [][NextExtract]_vars

----------------------------------------------------------------------------
(* Specification of search_graph over loaded graphs and index states *)

\* the entity lists searched for
EntityLists ==
    { << "income" >>, << "income", "race" >>, << "wealth", "income" >>,
      << "Top1Percent", "Bottom50Percent", "wealth" >>,
      << "Top1Percent", "wealth" >>, << "GEO:Seattle" >> }

\* the embedding models: none (the import failed), or one of the family
EmbeddingModels ==
    { [ loaded |-> FALSE, seed |-> 0 ] }
    \cup { [ loaded |-> TRUE, seed |-> e ] : e \in 0..(MaxEmbeddings - 1) }

\* the attribute dicts of the nodes of a graph, as a list of documents
Records(g) == [ i \in 1..Len(g) |-> g[i].data ]

\* the lists of documents add_documents is given: all records as at
\* start-up (main.py 299-300), the first record alone, or none
DocumentLists(g) == { Records(g), SubSeq(Records(g), 1, Min(1, Len(g))), <<>> }

InitSearch ==
    /\ \E shape \in CsvShapes :
           \E quarters \in 0..MaxQuarters :
               graph = load_data_and_create_graph(shape, quarters)
    /\ vector_store = VectorStoreInit
    /\ embedding \in EmbeddingModels
    /\ web_calls = <<>>
    /\ call = NoCall
    /\ prev = NoCall

\* vector_store.add_documents(documents)
AddDocuments ==
    \E documents \in DocumentLists(graph) :
        /\ vector_store' = add_documents(vector_store, embedding, documents)
        /\ call' = [ op |-> "add_documents", args |-> Len(documents) ]
        /\ prev' = NoCall
        /\ UNCHANGED <<graph, embedding, web_calls>>

\* search_graph(graph, entities)
SearchGraph ==
    \E entities \in EntityLists :
        \E r \in { search_graph(graph, vector_store, embedding, entities) } :
            /\ call' = [ op |-> "search_graph", args |-> entities,
                         unique_nodes |-> r.unique_nodes, ret |-> r.result ]
            /\ prev' = IF call.op = "search_graph" /\ call.args = entities
                       THEN call ELSE NoCall
            /\ vector_store' = [ vector_store EXCEPT !.metadata = r.metadata ]
            /\ UNCHANGED <<graph, embedding, web_calls>>

NextSearch == AddDocuments \/ SearchGraph

SpecSearch == InitSearch /\ [][NextSearch]_vars

\* the top_k of VectorStore.search: one, its default, that of search_graph
TopKs == { 1, 5, 10 }

\* vector_store.search(query, top_k)
VectorSearch ==
    \E entities \in EntityLists : \E top_k \in TopKs :
        /\ call' = [ op |-> "VectorStore.search",
                     args |-> [ query |-> Join(entities, " "), top_k |-> top_k ],
                     ret |-> vector_search(vector_store, embedding,
                                           Join(entities, " "), top_k) ]
        /\ prev' = NoCall
        /\ UNCHANGED <<graph, vector_store, embedding, web_calls>>

NextVector == AddDocuments \/ VectorSearch

\* the vector store alone: documents are added to it and it is searched
SpecVector == InitSearch /\ [][NextVector]_vars

----------------------------------------------------------------------------
(* Specification of search_graph where a node can be found by keyword and
   by the index at once: the index holds one record of the graph *)

\* the entity lists searched for: data types of the loaded files
HybridEntityLists == { << "networth" >>, << "income" >>, << "networth", "income" >> }

InitHybrid ==
    /\ \E quarters \in 1..2 : graph = load_data_and_create_graph("plain", quarters)
    /\ vector_store = VectorStoreInit
    /\ embedding \in EmbeddingModels
    /\ web_calls = <<>>
    /\ call = NoCall
    /\ prev = NoCall

\* vector_store.add_documents([record]) for one record of the graph
IndexRecord ==
    \E i \in 1..Len(graph) :
        /\ vector_store' = add_documents(vector_store, embedding, << Records(graph)[i] >>)
        /\ call' = [ op |-> "add_documents", args |-> 1 ]
        /\ prev' = NoCall
        /\ UNCHANGED <<graph, embedding, web_calls>>

\* search_graph(graph, entities)
HybridSearch ==
    \E entities \in HybridEntityLists :
        \E r \in { search_graph(graph, vector_store, embedding, entities) } :
            /\ call' = [ op |-> "search_graph", args |-> entities,
                         unique_nodes |-> r.unique_nodes, ret |-> r.result ]
            /\ prev' = NoCall
            /\ vector_store' = [ vector_store EXCEPT !.metadata = r.metadata ]
            /\ UNCHANGED <<graph, embedding, web_calls>>

NextHybrid == IndexRecord \/ HybridSearch

SpecHybrid == InitHybrid /\ [][NextHybrid]_vars


----------------------------------------------------------------------------
(* Specification of a rebuild of the vector store next to a search: one
   thread runs VectorStore.add_documents, another VectorStore.search, each a
   statement at a time; the class holds no lock *)

\* documents per rebuild
MaxRebuilt == 3

\* the lists of documents of a rebuild: the first records of the graph
RebuildLists(g) ==
    { SubSeq(Records(g), 1, n) : n \in 0..Min(MaxRebuilt, Len(g)) }

\* a store that add_documents has filled, or one it was never called on
InitRebuild ==
    /\ \E shape \in CsvShapes : graph = load_data_and_create_graph(shape, 1)
    /\ embedding \in EmbeddingModels
    /\ \E documents \in RebuildLists(graph) :
           vector_store = add_documents(VectorStoreInit, embedding, documents)
    /\ web_calls = <<>>
    /\ call = NoCall
    /\ prev = NoCall

\* add_documents, lines 69-75: the model test, embeddings_list = [],
\* self.metadata = []
RebuildStart ==
    /\ call.op = "none"
    /\ \E documents \in RebuildLists(graph) :
           IF ~embedding.loaded
           THEN /\ call' = [ op |-> "add_documents", pc |-> "return",
                             documents |-> documents, embeddings_list |-> 0 ]
                /\ UNCHANGED vector_store
           ELSE /\ call' = [ op |-> "add_documents", pc |-> "for",
                             documents |-> documents, embeddings_list |-> 0 ]
                /\ vector_store' = [ vector_store EXCEPT !.metadata = <<>> ]
    /\ UNCHANGED <<graph, embedding, web_calls, prev>>

\* add_documents, lines 77-83: one round of the loop (embeddings_list is
\* kept as its length)
RebuildAppend ==
    /\ call.op = "add_documents" /\ call.pc = "for"
    /\ call.embeddings_list < Len(call.documents)
    /\ vector_store' =
           [ vector_store EXCEPT
               !.metadata = Append(@, call.documents[call.embeddings_list + 1]) ]
    /\ call' = [ call EXCEPT !.embeddings_list = @ + 1 ]
    /\ UNCHANGED <<graph, embedding, web_calls, prev>>

\* add_documents, lines 85-88: self.embeddings_index = faiss.IndexFlatL2(dim),
\* an index without vectors
RebuildCreate ==
    /\ call.op = "add_documents" /\ call.pc = "for"
    /\ call.embeddings_list = Len(call.documents)
    /\ IF call.embeddings_list > 0
       THEN /\ vector_store' =
                   [ vector_store EXCEPT
                       !.embeddings_index = [ built |-> TRUE, ntotal |-> 0 ] ]
            /\ call' = [ call EXCEPT !.pc = "add" ]
       ELSE /\ call' = [ call EXCEPT !.pc = "return" ]
            /\ UNCHANGED vector_store
    /\ UNCHANGED <<graph, embedding, web_calls, prev>>

\* add_documents, line 89: self.embeddings_index.add(embeddings_array)
RebuildFill ==
    /\ call.op = "add_documents" /\ call.pc = "add"
    /\ vector_store' =
           [ vector_store EXCEPT
               !.embeddings_index.ntotal = call.embeddings_list ]
    /\ call' = [ call EXCEPT !.pc = "return" ]
    /\ UNCHANGED <<graph, embedding, web_calls, prev>>

\* add_documents returns
RebuildReturn ==
    /\ call.op = "add_documents" /\ call.pc = "return"
    /\ call' = NoCall
    /\ UNCHANGED <<graph, vector_store, embedding, web_calls, prev>>

\* search, lines 117-119: the test of the model and of the index
SearchStart ==
    /\ prev.op = "none"
    /\ \E entities \in EntityLists : \E top_k \in TopKs :
           prev' = [ op |-> "VectorStore.search",
                     pc |-> IF ~embedding.loaded
                               \/ ~vector_store.embeddings_index.built
                            THEN "return" ELSE "search",
                     args |-> [ query |-> Join(entities, " "), top_k |-> top_k ],
                     index |-> vector_store.embeddings_index,
                     indices |-> <<>>,
                     similarity |-> <<>>,
                     ret |-> [ kind |-> "ok", results |-> <<>> ] ]
    /\ UNCHANGED <<graph, vector_store, embedding, web_calls, call>>

\* what index.search(query, k) returns of an index of ntotal vectors: the
\* nearest first, and -1 with the largest float as distance (similarity 0)
\* where the index has fewer than k vectors
Nearest(emb, query, ntotal, k) ==
    LET ranked == NearestFirst(emb, query, 1..ntotal)
    IN  [ indices |-> [ i \in 1..k |-> IF i <= ntotal THEN ranked[i] ELSE -1 ],
          similarity |-> [ i \in 1..k |->
                             IF i <= ntotal
                             THEN Similarity(Distance(emb, query, ranked[i]))
                             ELSE [ n |-> 0, d |-> 1 ] ] ]

\* search, line 124: self.embeddings_index.search(query_embedding,
\* min(top_k, len(self.metadata)))
SearchIndex ==
    /\ prev.op = "VectorStore.search" /\ prev.pc = "search"
    /\ \E k \in { Min(prev.args.top_k, Len(vector_store.metadata)) } :
       \E found \in { Nearest(embedding, prev.args.query,
                              vector_store.embeddings_index.ntotal, k) } :
           prev' = IF k = 0
                   THEN [ prev EXCEPT !.pc = "return",
                             !.index = vector_store.embeddings_index,
                             !.ret = [ kind |-> "raise", exc |-> "AssertionError" ] ]
                   ELSE [ prev EXCEPT !.pc = "for",
                             !.index = vector_store.embeddings_index,
                             !.indices = found.indices,
                             !.similarity = found.similarity ]
    /\ UNCHANGED <<graph, vector_store, embedding, web_calls, call>>

\* search, lines 126-131: the one round of the loop over
\* zip(indices[0], distances); a Python list takes the index -1 as its last
\* element and raises IndexError on an index it does not have
SearchCollect ==
    /\ prev.op = "VectorStore.search" /\ prev.pc = "for"
    /\ \E idx \in { prev.indices[1] } :
       \E len \in { Len(vector_store.metadata) } :
           prev' = [ prev EXCEPT
                       !.pc = "return",
                       !.ret = IF ~(idx < len + 1)
                               THEN [ kind |-> "ok", results |-> <<>> ]
                               ELSE IF idx = -1 /\ len = 0
                               THEN [ kind |-> "raise", exc |-> "IndexError" ]
                               ELSE [ kind |-> "ok",
                                      results |-> << << IF idx = -1 THEN len ELSE idx,
                                                        prev.similarity >> >> ] ]
    /\ UNCHANGED <<graph, vector_store, embedding, web_calls, call>>

\* search returns
SearchReturn ==
    /\ prev.op = "VectorStore.search" /\ prev.pc = "return"
    /\ prev' = NoCall
    /\ UNCHANGED <<graph, vector_store, embedding, web_calls, call>>

NextRebuild ==
    \/ RebuildStart
    \/ RebuildAppend
    \/ RebuildCreate
    \/ RebuildFill
    \/ RebuildReturn
    \/ SearchStart
    \/ SearchIndex
    \/ SearchCollect
    \/ SearchReturn

SpecRebuild == InitRebuild /\ [][NextRebuild]_vars



----------------------------------------------------------------------------
(* Specification of add_node_to_graph: a session of upserts *)

\* a key the payload does not have
Absent == [ t |-> "absent" ]

\* the dict with the keys of f that have a value
Dict(f) == [ k \in { x \in DOMAIN f : f[x] # Absent } |-> f[k] ]

\* the location names of the payloads
PayloadNames == { Absent, Str(""), Str("Bay Area") }

\* the payloads add_node_to_graph is called with
Payloads ==
    { Dict([ k \in {"Neighborhood Name", "Population", "Median Income", "data_type"} |->
               CASE k = "Neighborhood Name" -> n
                 [] k = "Population" -> a
                 [] k = "Median Income" -> b
                 [] OTHER -> d ]) :
        n \in PayloadNames,
        a \in { Absent, Num(1), Num(3), None, Str("") },
        b \in { Absent, Num(2) },
        d \in { Absent, Str("local") } }

InitUpsert ==
    /\ \E quarters \in 0..1 : graph = load_data_and_create_graph("plain", quarters)
    /\ vector_store = VectorStoreInit
    /\ embedding = [ loaded |-> TRUE, seed |-> 0 ]
    /\ web_calls = <<>>
    /\ call = NoCall
    /\ prev = NoCall

AddNodeToGraph ==
    \E node_data \in Payloads :
        /\ graph' = add_node_to_graph(graph, node_data)
        /\ call' = [ op |-> "add_node_to_graph", args |-> node_data ]
        /\ prev' = NoCall
        /\ UNCHANGED <<vector_store, embedding, web_calls>>

NextUpsert == AddNodeToGraph

SpecUpsert == InitUpsert /\ [][NextUpsert]_vars

----------------------------------------------------------------------------
(* Specification of two enrichments at once: two threads each run
   add_node_to_graph on the shared graph, a statement at a time, and inside
   nx.Graph.add_node a statement of it at a time; no lock is held *)

\* the locations two queries enrich
EnrichLocations == { "Bay Area", "Seattle" }

\* the payloads get_graph_rag_context hands to add_node_to_graph
\* (graph_rag.py 251-254): the non-empty results of the web search
EnrichPayloads ==
    { search_and_extract_web_data(location, outcome) :
        location \in EnrichLocations, outcome \in WebOutcomes \ {"nothing"} }

\* the graphs the two calls start on: no bulk data, and no local node yet or
\* the node of an earlier enrichment
EnrichGraphs ==
    { <<>> } \cup { add_node_to_graph(<<>>, node_data) : node_data \in EnrichPayloads }

InitEnrich ==
    /\ graph \in EnrichGraphs
    /\ vector_store = VectorStoreInit
    /\ embedding = [ loaded |-> TRUE, seed |-> 0 ]
    /\ web_calls = <<>>
    /\ call = NoCall
    /\ prev = NoCall

\* the frame of a thread
Frame(thread) == IF thread = 1 THEN call ELSE prev

\* the frames after a step of a thread
Frames(thread, mine, other) ==
    IF thread = 1 THEN call' = mine /\ prev' = other
    ELSE prev' = mine /\ call' = other

\* node_entry = dict(node_data); node_entry.setdefault('data_type', 'local')
node_entry(node_data) ==
    Merged([ k \in {"data_type"} |-> Str("local") ], node_data)

\* the graph after d.update(attrs) on the attribute dict of node_id
Updated(g, node_id, attrs) ==
    [ g EXCEPT ![NodeIndex(g, node_id)].data = Merged(@, attrs) ]

\* add_node_to_graph, lines 316-322: the test of the location name, node_id
EnrichCall ==
    \E thread \in 1..2 : \E node_data \in EnrichPayloads :
        /\ Frame(thread).op = "none"
        /\ \E location_name \in { Get(node_data, "Neighborhood Name", None) } :
               Frames(thread,
                      [ op |-> "add_node_to_graph",
                        pc |-> IF Truthy(location_name) THEN "if" ELSE "return",
                        node_data |-> node_data,
                        node_id |-> IF Truthy(location_name)
                                    THEN LocalId(location_name.v) ELSE "",
                        attr_dict |-> "none" ],
                      Frame(3 - thread))
        /\ UNCHANGED <<graph, vector_store, embedding, web_calls>>

\* add_node_to_graph, line 324: if node_id not in graph
EnrichTest ==
    \E thread \in 1..2 :
        /\ Frame(thread).op = "add_node_to_graph" /\ Frame(thread).pc = "if"
        /\ Frames(thread,
                  [ Frame(thread) EXCEPT
                      !.pc = IF NodeIndex(graph, Frame(thread).node_id) = 0
                             THEN "add_node" ELSE "update" ],
                  Frame(3 - thread))
        /\ UNCHANGED <<graph, vector_store, embedding, web_calls>>

\* add_node_to_graph, line 332: graph.nodes[node_id].update(node_data)
EnrichUpdate ==
    \E thread \in 1..2 :
        /\ Frame(thread).op = "add_node_to_graph" /\ Frame(thread).pc = "update"
        /\ graph' = Updated(graph, Frame(thread).node_id, Frame(thread).node_data)
        /\ Frames(thread, [ Frame(thread) EXCEPT !.pc = "return" ], Frame(3 - thread))
        /\ UNCHANGED <<vector_store, embedding, web_calls>>

\* add_node_to_graph, lines 327-329, into nx.Graph.add_node:
\* if node_for_adding not in self._node
AddNodeTest ==
    \E thread \in 1..2 :
        /\ Frame(thread).op = "add_node_to_graph" /\ Frame(thread).pc = "add_node"
        /\ Frames(thread,
                  [ Frame(thread) EXCEPT
                      !.pc = IF NodeIndex(graph, Frame(thread).node_id) = 0
                             THEN "create" ELSE "merge" ],
                  Frame(3 - thread))
        /\ UNCHANGED <<graph, vector_store, embedding, web_calls>>

\* nx.Graph.add_node: attr_dict = self._node[n] = {}.  A thread that holds
\* the dict this one replaces keeps a dict the graph no longer has.
AddNodeCreate ==
    \E thread \in 1..2 :
        /\ Frame(thread).op = "add_node_to_graph" /\ Frame(thread).pc = "create"
        /\ \E node_id \in { Frame(thread).node_id } :
               /\ graph' = IF NodeIndex(graph, node_id) = 0
                           THEN Append(graph, [ id |-> node_id, data |-> EmptyDict ])
                           ELSE [ graph EXCEPT ![NodeIndex(graph, node_id)].data = EmptyDict ]
               /\ Frames(thread,
                         [ Frame(thread) EXCEPT !.pc = "fill", !.attr_dict = "of the graph" ],
                         IF /\ Frame(3 - thread).op = "add_node_to_graph"
                            /\ Frame(3 - thread).node_id = node_id
                            /\ Frame(3 - thread).attr_dict = "of the graph"
                         THEN [ Frame(3 - thread) EXCEPT !.attr_dict = "replaced" ]
                         ELSE Frame(3 - thread))
        /\ UNCHANGED <<vector_store, embedding, web_calls>>

\* nx.Graph.add_node: attr_dict.update(attr)
AddNodeFill ==
    \E thread \in 1..2 :
        /\ Frame(thread).op = "add_node_to_graph" /\ Frame(thread).pc = "fill"
        /\ graph' = IF Frame(thread).attr_dict = "of the graph"
                    THEN Updated(graph, Frame(thread).node_id,
                                 node_entry(Frame(thread).node_data))
                    ELSE graph
        /\ Frames(thread, [ Frame(thread) EXCEPT !.pc = "return" ], Frame(3 - thread))
        /\ UNCHANGED <<vector_store, embedding, web_calls>>

\* nx.Graph.add_node: self._node[n].update(attr)
AddNodeMerge ==
    \E thread \in 1..2 :
        /\ Frame(thread).op = "add_node_to_graph" /\ Frame(thread).pc = "merge"
        /\ graph' = Updated(graph, Frame(thread).node_id,
                            node_entry(Frame(thread).node_data))
        /\ Frames(thread, [ Frame(thread) EXCEPT !.pc = "return" ], Frame(3 - thread))
        /\ UNCHANGED <<vector_store, embedding, web_calls>>

NextEnrich ==
    \/ EnrichCall
    \/ EnrichTest
    \/ EnrichUpdate
    \/ AddNodeTest
    \/ AddNodeCreate
    \/ AddNodeFill
    \/ AddNodeMerge

SpecEnrich == InitEnrich /\ [][NextEnrich]_vars


----------------------------------------------------------------------------
(* Specification of the engine: a session of get_graph_rag_context calls
   on the graph loaded at startup.  main.py fills a VectorStore of its own
   (main.py 299-300); the one search_graph reads, graph_rag.vector_store,
   stays as constructed. *)

\* web searches per session
MaxWebCalls == 2

\* the index of a word of Words
WordIndex(w) == CHOOSE i \in 1..Len(Words) : Words[i] = w

\* the questions of a session
Asked ==
    { [ i \in 1..Len(q) |-> WordIndex(q[i]) ] :
        q \in { << "about" >>, << "income", "race" >>, << "income", "trend" >>,
                << "Seattle", "trend" >>, << "Paris", "recommend" >>,
                << "Seattle" >>,
                << "What is the top 1% wealth in 2020?" >> } }

\* the graph of a networth file of one row (2020:Q1, TopPt1), the other
\* files missing: its only node is networth_2020:Q1_TopPt1
SingleRowGraph == AddNodes(<<>>, << CsvNode("plain", "networth", 5, 1) >>)

Init ==
    /\ \/ \E shape \in CsvShapes : \E quarters \in {0, MaxQuarters} :
              graph = load_data_and_create_graph(shape, quarters)
       \/ graph = SingleRowGraph
    /\ vector_store = VectorStoreInit
    /\ embedding = [ loaded |-> TRUE, seed |-> 0 ]
    /\ web_calls = <<>>
    /\ call = NoCall
    /\ prev = NoCall

\* get_graph_rag_context(question, graph), nlp() reporting the entities
\* ner in the question; web_calls logs the locations handed to
\* search_and_extract_web_data, max_web_calls of them in a session
Answer(question, ner, max_web_calls) ==
    \E entity_data \in { extract_entities(question, ner) } :
        /\ Len(web_calls) + Len(entity_data.geographic) <= max_web_calls
        /\ \E searched \in { SearchPasses(graph, vector_store, embedding,
                                          entity_data.entities_list) } :
           \E gov \in IF Len(entity_data.geographic) > 0
                      THEN GovOutcomes ELSE {"no_data"} :
           \E web \in IF Len(entity_data.geographic) > 0
                      THEN WebOutcomes ELSE {"nothing"} :
           \E trend \in IF entity_data.query_type = "trend"
                        THEN TrendOutcomes ELSE {"analysis"} :
           \E policy \in IF entity_data.query_type = "policy"
                         THEN PolicyOutcomes ELSE {"recommendations"} :
           \E o \in { [ gov |-> gov, web |-> web,
                        trend |-> trend, policy |-> policy ] } :
           \E r \in { get_graph_rag_context(entity_data, searched, graph, o) } :
               /\ graph' = r.graph
               /\ vector_store' = [ vector_store EXCEPT !.metadata = r.metadata ]
               /\ web_calls' = web_calls \o r.web_searched
               /\ call' = [ op |-> "get_graph_rag_context",
                            args |-> [ question |-> question, ner |-> ner ],
                            outcome |-> o,
                            ret |-> r.ret,
                            passes |-> r.passes,
                            web_searched |-> r.web_searched,
                            entity_data |-> entity_data,
                            relevant_nodes |-> r.relevant_nodes,
                            local_nodes |-> r.local_nodes ]
               /\ prev' = NoCall
               /\ UNCHANGED embedding

\* one query of a session
GetGraphRagContext ==
    \E ws \in Asked : \E P \in SUBSET GpePositions(ws) :
        Answer(QuestionText(ws), NerTexts(ws, P), MaxWebCalls)

Next == GetGraphRagContext

Spec == Init /\ [][Next]_vars

----------------------------------------------------------------------------
(* Specification of the engine on small graphs: sessions of questions that
   name a location, or a data type, or ask for a policy *)

\* the questions, each with the entities nlp() reports in it
FollowUpQuestions ==
    { [ question |-> "Anchorage", ner |-> << "Anchorage" >> ],
      [ question |-> "Seattle", ner |-> << "Seattle" >> ],
      [ question |-> "income", ner |-> <<>> ],
      [ question |-> "recommend income", ner |-> <<>> ] }

\* no data file, or one quarter of every file
InitFollowUp ==
    /\ \E quarters \in 0..1 : graph = load_data_and_create_graph("plain", quarters)
    /\ vector_store = VectorStoreInit
    /\ embedding = [ loaded |-> TRUE, seed |-> 0 ]
    /\ web_calls = <<>>
    /\ call = NoCall
    /\ prev = NoCall

\* web searches per session of follow-up questions
MaxFollowUpWebCalls == 4

\* one query of a session
FollowUp ==
    \E q \in FollowUpQuestions : Answer(q.question, q.ner, MaxFollowUpWebCalls)

NextFollowUp == FollowUp

SpecFollowUp == InitFollowUp /\ [][NextFollowUp]_vars


----------------------------------------------------------------------------
(* Specification of create_context_from_nodes as a function of the nodes *)

\* nodes per rendered list
MaxRendered == 2

\* the values of the field Net worth in the nodes rendered
RenderedValues ==
    { Absent, None, NaN, Str("n/a"), Str("15000"),
      Num(0), Num(7), Num(999), Num(1000), Num(1049), Num(1051), Num(1250),
      Num(1750), Num(15000), Num(1234567), Num(-999), Num(-1000), Num(-15000) }

\* the nodes rendered: bulk nodes with a net worth and, some, assets
RenderedNodes ==
    { Dict([ k \in {"data_type", "Category", "Date", "Net worth", "Assets"} |->
               CASE k = "data_type" -> Str("networth")
                 [] k = "Category" -> Str("TopPt1")
                 [] k = "Date" -> Str("2020:Q1")
                 [] k = "Net worth" -> net_worth
                 [] OTHER -> assets ]) :
        net_worth \in RenderedValues, assets \in { Absent, Num(250) } }

InitRender ==
    /\ graph = <<>>
    /\ vector_store = VectorStoreInit
    /\ embedding = [ loaded |-> TRUE, seed |-> 0 ]
    /\ web_calls = <<>>
    /\ prev = NoCall
    /\ \E n \in 0..MaxRendered : \E nodes \in [1..n -> RenderedNodes] :
           call = [ op |-> "create_context_from_nodes",
                    args |-> [ i \in 1..n |-> [ obj |-> << "node", i >>,
                                                data |-> nodes[i] ] ],
                    done |-> FALSE ]

\* the call of create_context_from_nodes on the nodes
CreateContextFromNodes ==
    /\ call.op = "create_context_from_nodes"
    /\ ~call.done
    /\ call' = [ op |-> "create_context_from_nodes",
                 args |-> call.args,
                 done |-> TRUE,
                 ret |-> create_context_from_nodes(call.args) ]
    /\ UNCHANGED <<graph, vector_store, embedding, web_calls, prev>>

NextRender == CreateContextFromNodes

SpecRender == InitRender /\ [][NextRender]_vars

----------------------------------------------------------------------------
(* Properties of extract_entities (SpecExtract) *)

ExtractDone == call.op = "extract_entities" /\ call.done

\* the lower-cased question of the call
CallQuestionLower == lower(call.args.question)

\* the question names a place: an entity of nlp() or a gazetteer city
NamesGeo ==
    \/ call.args.ner # <<>>
    \/ \E i \in 1..Len(tech_cities) :
           Contains(lower(tech_cities[i]), CallQuestionLower)

\* the question holds a wealth phrase
HasWealthPhrase ==
    \E i \in 1..Len(wealth_terms) : Contains(wealth_terms[i][1], CallQuestionLower)

\* the question holds a demographic or data-type phrase
HasDataTypePhrase ==
    \E i \in 1..Len(data_types) : Contains(data_types[i][1], CallQuestionLower)

NoEntityTerm == ~NamesGeo /\ ~HasWealthPhrase /\ ~HasDataTypePhrase

HasTrendWord == \E w \in Range(trend_words) : Contains(w, CallQuestionLower)

HasPolicyWord == \E w \in Range(policy_words) : Contains(w, CallQuestionLower)

HasComparisonWord == \E w \in Range(comparison_words) : Contains(w, CallQuestionLower)

\* C2 as stated: a question with no geographic entity, no wealth phrase and
\* no demographic/data-type phrase gets exactly two wealth-percentile tags
\* (the top and the bottom group), an empty demographics list and intent
\* general.
C2_DefaultBundleAsStated ==
    (ExtractDone /\ NoEntityTerm) =>
        /\ call.ret.wealth_groups = << "Top1Percent", "Bottom50Percent" >>
        /\ call.ret.demographics = <<>>
        /\ call.ret.query_type = "general"

\* C2 amended: such a question gets exactly the two wealth-percentile tags
\* Top1Percent and Bottom50Percent, the demographics list ["wealth"] and the
\* search keys [Top1Percent, Bottom50Percent, wealth]; its intent is the one
\* its intent keywords give, general exactly when it holds none of them.
C2_DefaultBundle ==
    (ExtractDone /\ NoEntityTerm) =>
        /\ call.ret.wealth_groups = << "Top1Percent", "Bottom50Percent" >>
        /\ call.ret.demographics = << "wealth" >>
        /\ call.ret.entities_list = << "Top1Percent", "Bottom50Percent", "wealth" >>
        /\ call.ret.geographic = <<>>
        /\ (call.ret.query_type = "general") <=>
               ~(HasTrendWord \/ HasPolicyWord \/ HasComparisonWord)

\* a term-free question with an intent keyword has been answered
C2_Witness ==
    /\ ExtractDone
    /\ NoEntityTerm
    /\ HasTrendWord
    /\ call.ret.query_type = "trend"
    /\ call.ret.demographics = << "wealth" >>

\* C3: for every question the search-key list entities_list that
\* extract_entities returns is non-empty.
C3_SearchKeysNonEmpty ==
    ExtractDone => Len(call.ret.entities_list) > 0

\* a question with no term at all has been answered with search keys
C3_Witness ==
    /\ ExtractDone
    /\ NoEntityTerm
    /\ call.args.question = ""
    /\ Len(call.ret.entities_list) = 3

\* C4: the intent is classified in the precedence trend > policy >
\* comparison > general.
C4_IntentPrecedence ==
    ExtractDone =>
        /\ HasTrendWord => call.ret.query_type = "trend"
        /\ (~HasTrendWord /\ HasPolicyWord) => call.ret.query_type = "policy"
        /\ (~HasTrendWord /\ ~HasPolicyWord /\ HasComparisonWord)
               => call.ret.query_type = "comparison"
        /\ (~HasTrendWord /\ ~HasPolicyWord /\ ~HasComparisonWord)
               => call.ret.query_type = "general"

\* a question holding both a trend keyword and a policy keyword has been
\* classified trend
C4_Witness ==
    /\ ExtractDone
    /\ HasTrendWord
    /\ HasPolicyWord
    /\ call.ret.query_type = "trend"

----------------------------------------------------------------------------
(* Properties of search_graph (SpecSearch) *)

SearchReturned == call.op = "search_graph" /\ call.ret.kind = "ok"

\* the de-duplicated candidates of the call: what search_graph held in
\* unique_nodes before the cap
Candidates == call.unique_nodes

ClaimedAge(node) ==
    LET date == Get(node.data, "Date", Str("unknown"))
    IN  IF date.t = "str" /\ \E q \in 1..Len(Quarters) : Quarters[q] = date.v
        THEN CHOOSE q \in 1..Len(Quarters) : Quarters[q] = date.v
        ELSE 0

\* C6: over more than 10 candidates the nodes returned are the 10 most
\* recent by date in descending date order, a node with a missing or
\* "unknown" date counting as the oldest: it never precedes a dated node
\* and no dated node is dropped while it is kept.
C6_MostRecentTen ==
    (SearchReturned /\ Len(Candidates) > 10) =>
        /\ \A i, j \in 1..Len(call.ret.nodes) :
               i < j => ClaimedAge(call.ret.nodes[i]) >= ClaimedAge(call.ret.nodes[j])
        /\ \A c \in Range(Candidates) :
               c \notin Range(call.ret.nodes) =>
                   \A r \in Range(call.ret.nodes) : ClaimedAge(r) >= ClaimedAge(c)

\* C7: with the graph and the vector index unchanged, two calls of
\* search_graph with the same entity list end alike (the same nodes in the
\* same order), and a call changes neither the graph nor the documents
\* stored in the vector store.
C7_SearchIdempotent ==
    /\ [](call.op = "search_graph" /\ prev.op = "search_graph"
              => call.ret = prev.ret)
    /\ [][call'.op = "search_graph" =>
              graph' = graph /\ vector_store' = vector_store]_vars

\* the second of two equal searches has returned semantic and keyword hits
C7_Witness ==
    /\ call.op = "search_graph"
    /\ prev.op = "search_graph"
    /\ call.ret.kind = "ok"
    /\ \E i \in 1..Len(call.ret.nodes) : call.ret.nodes[i].obj[1] = "copy"
    /\ \E i \in 1..Len(call.ret.nodes) : call.ret.nodes[i].obj[1] = "graph"

----------------------------------------------------------------------------
(* Properties of add_node_to_graph (SpecUpsert) *)

\* the node id of the upsert the step makes, "" when it makes none
UpsertId(c) ==
    IF c.op = "add_node_to_graph"
       /\ Truthy(Get(c.args, "Neighborhood Name", None))
    THEN LocalId(c.args["Neighborhood Name"].v)
    ELSE ""

\* the attributes of node_id in g, the empty dict when it is not a node
NodeData(g, node_id) ==
    IF NodeIndex(g, node_id) = 0 THEN EmptyDict
    ELSE g[NodeIndex(g, node_id)].data

\* d has key k with value v
Has(d, k, v) == k \in DOMAIN d /\ d[k] = v

\* C8: an upsert leaves on its node every field it mentions with the value
\* it gives, and every other field of the node with the value it had; so
\* {Population: 1} (or 3) followed by {Median Income: 2} on one id leaves
\* Population 1 (or 3) and Median Income 2.
C8_MergeLaw ==
    [][ \A node_id \in { UpsertId(call') } : node_id # "" =>
          \A before \in { NodeData(graph, node_id) } :
              \A after \in { NodeData(graph', node_id) } :
                  /\ NodeIndex(graph', node_id) # 0
                  /\ \A k \in DOMAIN call'.args : Has(after, k, call'.args[k])
                  /\ \A k \in (DOMAIN before) \ (DOMAIN call'.args) :
                         Has(after, k, before[k])
                  /\ \A n \in {1, 3} :
                         ( /\ UpsertId(call) = node_id
                           /\ Has(call.args, "Population", Num(n))
                           /\ "Population" \notin DOMAIN call'.args
                           /\ Has(call'.args, "Median Income", Num(2)) )
                         => /\ Has(after, "Population", Num(n))
                            /\ Has(after, "Median Income", Num(2)) ]_vars

\* an upsert of Median Income 2 alone has met a node whose Population 3
\* came from an earlier upsert
C8_Witness ==
    /\ UpsertId(call) = "local_Bay_Area"
    /\ DOMAIN call.args = {"Neighborhood Name", "Median Income"}
    /\ Has(NodeData(graph, "local_Bay_Area"), "Population", Num(3))
    /\ Has(NodeData(graph, "local_Bay_Area"), "Median Income", Num(2))

\* None or the empty string
Empty(value) == value = None \/ value = Str("")

\* C9: an upsert on an id already in the graph leaves a non-empty value
\* in place when the incoming value of that field is None or "".
C9_EmptyLeavesExisting ==
    [][ UpsertId(call') # "" /\ NodeIndex(graph, UpsertId(call')) # 0 =>
          LET before == NodeData(graph, UpsertId(call'))
              after == NodeData(graph', UpsertId(call'))
          IN  \A k \in (DOMAIN before) \cap (DOMAIN call'.args) :
                  Empty(call'.args[k]) /\ ~Empty(before[k])
                  => Has(after, k, before[k]) ]_vars

----------------------------------------------------------------------------
(* Properties of get_graph_rag_context (Spec) *)

\* C1: every call of get_graph_rag_context returns a context; none ends
\* in an exception that reaches the caller.
C1_AlwaysReturnsContext ==
    call.op = "get_graph_rag_context" => call.ret.kind = "ok"

\* C10: in one session search_and_extract_web_data is called at most once
\* for a location, whatever its first call came to.
C10_OneWebCallPerLocation ==
    \A i, j \in 1..Len(web_calls) : web_calls[i] = web_calls[j] => i = j

\* get_graph_rag_context has returned a context
ContextReturned == call.op = "get_graph_rag_context" /\ call.ret.kind = "ok"

\* the local_nodes of the call that came from the web search
EnrichmentNodes ==
    SelectSeq(call.local_nodes, LAMBDA local : "Neighborhood Name" \in DOMAIN local)

\* the no-data message
NoDataText ==
    "No specific data found for the wealth groups or time periods in the question."

\* C11: a call whose ranked nodes are none and that obtained no enrichment
\* node returns the no-data message alone, also when the query names a
\* location.
C11_NoDataMessageAlone ==
    (ContextReturned /\ Len(call.relevant_nodes) = 0 /\ Len(EnrichmentNodes) = 0)
    => call.ret.context = << [ section |-> "text", text |-> NoDataText ] >>

\* the context holds the note that nothing local was found for locations
HasNote(locations) ==
    \E i \in 1..Len(call.ret.context) :
        call.ret.context[i] = [ section |-> "note", locations |-> locations ]

\* C12: the context of a query that names a location and obtained no
\* enrichment node for any holds the note naming the locations; the
\* context of a query that names no location holds no note.
C12_NoteWhenNothingLocal ==
    ContextReturned =>
        /\ (Len(call.entity_data.geographic) > 0 /\ Len(EnrichmentNodes) = 0)
               => HasNote(Join(call.entity_data.geographic, ", "))
        /\ Len(call.entity_data.geographic) = 0
               => \A i \in 1..Len(call.ret.context) :
                      call.ret.context[i].section # "note"

\* the blocks of the trend section in the context
TrendBlocks ==
    SelectSeq(call.ret.context,
              LAMBDA b : b.section = "trend"
                         \/ b = [ section |-> "text", text |-> "=== TREND ANALYSIS ===" ])

\* a query of intent trend has been answered from ranked nodes
TrendAnswered ==
    /\ call.op = "get_graph_rag_context"
    /\ call.entity_data.query_type = "trend"
    /\ Len(call.relevant_nodes) > 0

\* C13: the context of a query of intent trend with ranked nodes holds
\* the trend section, header then analysis; when analyze_wealth_gap_trends
\* raises, the call still returns a context, and it holds no block of the
\* trend section.
C13_TrendSection ==
    TrendAnswered =>
        /\ ContextReturned
        /\ call.outcome.trend = "analysis" =>
               TrendBlocks = << [ section |-> "text", text |-> "=== TREND ANALYSIS ===" ],
                                [ section |-> "trend" ] >>
        /\ call.outcome.trend = "raise" => TrendBlocks = <<>>

\* analyze_wealth_gap_trends has raised on the ranked nodes of a trend query
C13_Witness ==
    /\ TrendAnswered
    /\ ContextReturned
    /\ call.outcome.trend = "raise"
    /\ \E i \in 1..Len(call.ret.context) : call.ret.context[i].section = "node"

\* the query about the top 1% has been answered
TopOnePercentAsked ==
    /\ call.op = "get_graph_rag_context"
    /\ call.args.question = "What is the top 1% wealth in 2020?"

\* C14: the query about the top 1% yields the wealth group TopPt1, the
\* category label of the bulk nodes of that group, and on the graph whose
\* only node is networth_2020:Q1_TopPt1 the ranked nodes are exactly that
\* node.
C14_PercentileGroupRetrieved ==
    TopOnePercentAsked =>
        /\ call.entity_data.wealth_groups = << "TopPt1" >>
        /\ graph = SingleRowGraph =>
               /\ ContextReturned
               /\ [ i \in 1..Len(call.relevant_nodes) |-> call.relevant_nodes[i].data ]
                      = << SingleRowGraph[1].data >>

----------------------------------------------------------------------------
(* Properties of create_context_from_nodes (SpecRender) *)

\* create_context_from_nodes has rendered nodes
Rendered ==
    /\ call.op = "create_context_from_nodes"
    /\ call.done
    /\ call.ret.kind = "ok"

\* the lines of the fields in the rendered context, with the value rendered
RenderedLines ==
    UNION { { [ value |-> call.ret.context[i].node[line.field], text |-> line.text ] :
                line \in Range(call.ret.context[i].lines) } :
            i \in { j \in 1..Len(call.ret.context) :
                        call.ret.context[j].section = "node" } }

\* C15: a field whose value is a number of magnitude at least 1,000 is
\* shown as "$X.Yb", the value divided by 1,000 with one decimal and a
\* lower-case b, and a smaller one as a whole-dollar amount with thousands
\* separators; Net worth 15000 gives "Net worth: $15.0b".
C15_CurrencyRendering ==
    Rendered =>
        \A line \in RenderedLines :
            /\ line.value.t = "num" /\ Abs(line.value.v) >= 1000 =>
                   \E field \in Range(key_fields) :
                       line.text = field \o ": $" \o OneDecimal(line.value.v) \o "b"
            /\ line.value.t = "num" /\ Abs(line.value.v) < 1000 =>
                   \E field \in Range(key_fields) :
                       line.text = field \o ": $" \o WholeGrouped(line.value.v)
            /\ line.value = Num(15000) => line.text = "Net worth: $15.0b"

----------------------------------------------------------------------------
(* Properties of VectorStore.search (SpecVector) *)

\* VectorStore.search has returned
VectorSearchReturned == call.op = "VectorStore.search" /\ call.ret.kind = "ok"

\* C16: every similarity VectorStore.search returns with a document is at
\* least the floor 0.3.
C16_SimilarityFloor ==
    VectorSearchReturned =>
        \A i \in 1..Len(call.ret.results) :
            \A j \in 1..Len(call.ret.results[i][2]) :
                ~FracLess(call.ret.results[i][2][j], Threshold)

\* C17: on a vector store whose index has not been built,
\* VectorStore.search returns the empty list, whatever the query and top_k.
C17_UnbuiltIndexGivesNothing ==
    (call.op = "VectorStore.search" /\ ~vector_store.embeddings_index.built)
    => call.ret = [ kind |-> "ok", results |-> <<>> ]

\* a search has run on a store that was given no document and has no
\* index, with the embedding model loaded
C17_Witness ==
    /\ call.op = "VectorStore.search"
    /\ ~vector_store.embeddings_index.built
    /\ embedding.loaded
    /\ call.args.top_k = 10

----------------------------------------------------------------------------
(* Properties of a rebuild next to a search (SpecRebuild) *)

\* an index paired with the list of documents it was built of
Coherent(index, metadata) ==
    IF index.built THEN index.ntotal = Len(metadata) ELSE metadata = <<>>

\* C18: a search that runs while add_documents rebuilds the store reads the
\* old index with the old list of documents or the new index with the new
\* list: the index it is about to ask is paired with the list that index was
\* built of, and so is the index it has asked when it goes through the list.
C18_RebuildAtomic ==
    /\ (prev.op = "VectorStore.search" /\ prev.pc = "search"
        /\ call.op = "add_documents")
       => Coherent(vector_store.embeddings_index, vector_store.metadata)
    /\ (prev.op = "VectorStore.search" /\ prev.pc = "for")
       => Coherent(prev.index, vector_store.metadata)

----------------------------------------------------------------------------
(* Properties of two enrichments at once (SpecEnrich) *)

\* both threads have returned from add_node_to_graph for one node id
BothEnriched ==
    /\ call.op = "add_node_to_graph" /\ call.pc = "return"
    /\ prev.op = "add_node_to_graph" /\ prev.pc = "return"
    /\ call.node_id = prev.node_id

\* C19: two add_node_to_graph calls for one node id that run at the same
\* time leave the graph that the two calls leave when one runs after the
\* other, in one of the two orders, and the node has every field of both
\* payloads.
C19_EnrichmentsDoNotInterleave ==
    BothEnriched =>
        /\ \E g \in EnrichGraphs :
               \/ graph = add_node_to_graph(add_node_to_graph(g, call.node_data),
                                            prev.node_data)
               \/ graph = add_node_to_graph(add_node_to_graph(g, prev.node_data),
                                            call.node_data)
        /\ \A k \in (DOMAIN call.node_data) \cup (DOMAIN prev.node_data) :
               k \in DOMAIN graph[NodeIndex(graph, call.node_id)].data

----------------------------------------------------------------------------
(* Properties of the vector store next to the graph (Spec) *)

\* C20: the vector store search_graph reads has an index, and a document in
\* it for every node of the graph, at start-up and after every enrichment.
C20_IndexCoversGraph ==
    Len(graph) > 0 =>
        /\ vector_store.embeddings_index.built
        /\ vector_store.embeddings_index.ntotal = Len(vector_store.metadata)
        /\ \A i \in 1..Len(graph) :
               \E j \in 1..Len(vector_store.metadata) :
                   vector_store.metadata[j] = graph[i].data

----------------------------------------------------------------------------
(* Properties of the enrichment inside get_graph_rag_context (Spec) *)

\* C21: a query whose web search finds a page from which no metric can be
\* extracted (nothing beyond location name, source and type) is a failed
\* enrichment: no node is inserted into or merged in the graph, and no
\* local-data block is rendered from a web payload.
C21_TrivialPayloadIsFailure ==
    [][ (call'.op = "get_graph_rag_context" /\ call'.outcome.web = "page")
        => /\ graph' = graph
           /\ Len(EnrichmentNodes)' = 0
           /\ call'.ret.kind = "ok"
              => \A i \in 1..Len(call'.ret.context) :
                     call'.ret.context[i].section = "local"
                     => "Neighborhood Name" \notin DOMAIN call'.ret.context[i].data ]_vars

\* the node was inserted by enrichment: its id is local_{location}
IsLocalNode(node) == Len(node.id) >= 6 /\ SubSeq(node.id, 1, 6) = "local_"

\* C22: every node enrichment has inserted has data_type 'local' and a
\* Source naming its origin, also after later payloads were merged into it.
C22_LocalNodesAttributed ==
    \A i \in 1..Len(graph) :
        IsLocalNode(graph[i])
        => /\ GetEquals(graph[i].data, "data_type", "local")
           /\ "Source" \in DOMAIN graph[i].data
           /\ Truthy(graph[i].data["Source"])

\* a node of enrichment into which a second payload was merged: it has the
\* metric of one web search and the page preview of another
C22_Witness ==
    \E i \in 1..Len(graph) :
        /\ IsLocalNode(graph[i])
        /\ {"Population", "Title"} \subseteq DOMAIN graph[i].data

----------------------------------------------------------------------------
(* Properties of the hybrid combination in search_graph (SpecSearch) *)

\* the keyword hits of the call
KeywordHits == KeywordMatches(graph, call.args)

\* C23: when at most 10 nodes match a keyword, search_graph returns every
\* one of them, however many semantic hits there are and whatever the dates.
C23_KeywordHitsKept ==
    (call.op = "search_graph" /\ Len(KeywordHits) <= 10) =>
        /\ call.ret.kind = "ok"
        /\ \A hit \in Range(KeywordHits) : hit \in Range(call.ret.nodes)

\* the graph node a hit stands for: its attributes without the score
NodeOf(hit) ==
    [ k \in DOMAIN hit.data \ {"_similarity_score"} |-> hit.data[k] ]

\* the call found nodes by keyword and nodes by the index
BothKindsOfHit ==
    /\ SearchReturned
    /\ \E i \in 1..Len(Candidates) : Candidates[i].obj[1] = "graph"
    /\ \E i \in 1..Len(Candidates) : Candidates[i].obj[1] # "graph"

\* C24: when search_graph has keyword hits and semantic hits, no node is
\* twice in what it returns: a node found both ways has one position.
C24_UnionWithoutDuplicates ==
    BothKindsOfHit =>
        \A i, j \in 1..Len(call.ret.nodes) :
            NodeOf(call.ret.nodes[i]) = NodeOf(call.ret.nodes[j]) => i = j

\* how the semantic step of the call went: the index was not there (or no
\* embedding model was), the step raised, or it ran
SemanticStep ==
    IF ~embedding.loaded \/ ~vector_store.embeddings_index.built
       \/ Len(vector_store.metadata) = 0
    THEN "unavailable"
    ELSE IF vector_search(vector_store, embedding,
                          Join(call.args, " "), MaxResults).kind = "raise"
    THEN "raise"
    ELSE IF SemanticHits(vector_store,
                         vector_search(vector_store, embedding,
                                       Join(call.args, " "), MaxResults).results).kind
            = "raise"
    THEN "raise"
    ELSE "ran"

\* the call returned, or raised, what the keyword hits alone come to
KeywordOnly == call.ret = Capped(Unique(KeywordHits, {}))

\* C25: when the semantic step raises or the index is unavailable,
\* search_graph returns the de-duplicated, capped keyword hits, without any
\* semantic hit, and raises nothing.
C25_DegradesToKeywordOnly ==
    (call.op = "search_graph" /\ SemanticStep # "ran") =>
        /\ call.ret.kind = "ok"
        /\ KeywordOnly

\* the part of C25 that does not speak of raising
C25_KeywordOnlyWhenDegraded ==
    (call.op = "search_graph" /\ SemanticStep # "ran") => KeywordOnly

----------------------------------------------------------------------------
(* Properties of the search passes of get_graph_rag_context (SpecFollowUp) *)

\* C26: in a query whose enrichment inserts a node into the graph or merges
\* one, the ranked nodes the context is assembled from are those of a search
\* made after that change: what search_graph finds in the enriched graph.
C26_RankedAfterEnrichment ==
    [][ (call'.op = "get_graph_rag_context" /\ graph' # graph)
        => \E again \in { SearchPasses(graph', vector_store', embedding',
                                       call'.entity_data.entities_list) } :
               /\ again.result.kind = "ok"
               /\ call'.relevant_nodes = again.result.nodes ]_vars

\* the search keys of the default bundle of extract_entities
DefaultKeys == extract_entities("", <<>>).entities_list

\* the general search keys of the fallback pass
GeneralKeys == << "wealth", "income" >>

\* C27 as stated: when the first search pass of a query returns no node,
\* exactly one more pass runs, keyed by the default entity bundle; when it
\* returns a node, no second pass runs.
C27_OneFallbackPassAsStated ==
    [][ call'.op = "get_graph_rag_context"
        => \E first \in { search_graph(graph, vector_store, embedding,
                                       call'.entity_data.entities_list).result } :
               /\ (first.kind = "ok" /\ Len(first.nodes) = 0)
                  => call'.passes = << call'.entity_data.entities_list, DefaultKeys >>
               /\ (first.kind = "ok" /\ Len(first.nodes) > 0)
                  => call'.passes = << call'.entity_data.entities_list >> ]_vars

\* C27: when the first search pass of a query returns no node, exactly one
\* more pass runs, keyed by the general keys wealth and income; when it
\* returns a node, no second pass runs.
C27_OneFallbackPass ==
    [][ call'.op = "get_graph_rag_context"
        => \E first \in { search_graph(graph, vector_store, embedding,
                                       call'.entity_data.entities_list).result } :
               /\ (first.kind = "ok" /\ Len(first.nodes) = 0)
                  => call'.passes = << call'.entity_data.entities_list, GeneralKeys >>
               /\ (first.kind = "ok" /\ Len(first.nodes) > 0)
                  => call'.passes = << call'.entity_data.entities_list >> ]_vars

\* a query whose first pass found nothing and whose second pass found nodes
C27_Witness ==
    /\ ContextReturned
    /\ Len(call.passes) = 2
    /\ Len(call.relevant_nodes) > 0

\* C28: for a query with intent policy and a non-empty ranked set, the
\* assembled context contains a policy block listing the first
\* recommendations (at most 3, each with title, priority and description)
\* that get_policy_recommendations_for_region returns for the region metrics
\* handed to it.
C28_PolicyBlock ==
    ( /\ ContextReturned
      /\ call.entity_data.query_type = "policy"
      /\ Len(call.relevant_nodes) > 0
      /\ call.outcome.policy = "recommendations" )
    => \E i \in 1..Len(call.ret.context) :
           /\ call.ret.context[i].section = "policy"
           /\ \E recommendations \in
                  { get_policy_recommendations_for_region(
                        region_data(call.entity_data.geographic)) } :
                  call.ret.context[i].recommendations
                      = SubSeq(recommendations, 1, Min(3, Len(recommendations)))

\* C29: VectorStore.search(query, top_k) on a built index of n documents
\* returns one pair of a document and a similarity for each of the
\* min(top_k, n) nearest documents, each similarity a single number, the
\* highest similarity first.
C29_OnePairPerNeighbour ==
    ( /\ VectorSearchReturned
      /\ embedding.loaded
      /\ vector_store.embeddings_index.built )
    => /\ Len(call.ret.results) = Min(call.args.top_k, Len(vector_store.metadata))
       /\ \A i \in 1..Len(call.ret.results) : Len(call.ret.results[i][2]) = 1
       /\ \A i, j \in 1..Len(call.ret.results) :
              i < j => ~FracLess(call.ret.results[i][2][1],
                                 call.ret.results[j][2][1])

\* C30: when a query names a location whose node local_{location}
\* enrichment has already added to the graph, the search of that query
\* returns this node.
C30_EnrichedNodeFound ==
    [][ call'.op = "get_graph_rag_context"
        => \A i \in 1..Len(call'.entity_data.geographic) :
               \E node_id \in { LocalId(call'.entity_data.geographic[i]) } :
                   NodeIndex(graph, node_id) # 0
                   => \E j \in 1..Len(call'.relevant_nodes) :
                          call'.relevant_nodes[j].obj = << "graph", node_id >> ]_vars

====
